---- MODULE Spec2Model ----
(***************************************************************************)
(* DrapeStudio: the generation pipeline.                                   *)
(*                                                                         *)
(* State: the three tables (generation_request, generation_output,         *)
(* usage_cost), the object storage, the job queue, the wall clock, one     *)
(* record per HTTP caller inside create_generation and one record per      *)
(* queue worker inside generate_images.                                    *)
(*                                                                         *)
(* Optional values (Python None) are sequences of length 0 or 1:           *)
(* None == <<>>, a present value v is <<v>>.                               *)
(***************************************************************************)
EXTENDS Integers, Sequences, FiniteSets, TLC

\* ------------------------------------------------------------------ bounds
MaxTime == 5
MaxCreate == 2
MaxDispatch == 2
MaxRetries == 2

\* ------------------------------------------------------- program constants
\* timedelta(minutes=5); the clock of the model counts minutes
STALE_THRESHOLD == 5
\* queue.enqueue(..., job_timeout=600): ten minutes of the model's clock
JOB_TIMEOUT == 10
\* for variation_idx in range(3)
NumVariations == 3
\* len(body.garment_images) > 5
MaxGarmentImages == 5
\* @router.post("/generations", ..., status_code=201)
HTTP_CREATED == 201
\* raise HTTPException(status_code=409, ...)
HTTP_CONFLICT == 409

Workers == {"w1", "w2"}
Callers == {"c1", "c2"}

None == <<>>
Some(v) == <<v>>

\* ----------------------------------------------------------------- values
Session1 == <<"sess_", 1>>

\* A storage path is dir/owner/name; a reference is the path with or without
\* the local:// scheme in front.
UploadPath(sess, name) == [dir |-> "uploads", owner |-> sess, name |-> name]
LocalUrl(path) == [scheme |-> "local://", path |-> path]

GarmentA == LocalUrl(UploadPath(Session1, "front.jpg"))
GarmentB == LocalUrl(UploadPath(Session1, "back.jpg"))

\* Model reference photos: PhotoA is in storage, PhotoB is not.
PhotoA == LocalUrl(UploadPath(Session1, "model.jpg"))
PhotoB == LocalUrl(UploadPath(Session1, "gone.jpg"))

BaseModelParams ==
    [ age_range |-> "25-34",
      gender_presentation |-> "feminine",
      ethnicity |-> "",
      skin_tone |-> "4",
      body_mode |-> "simple",
      body_type |-> "curvy",
      hair_style |-> "",
      hair_color |-> "",
      additional_description |-> "",
      model_photo_url |-> None,
      measurements |-> None ]

BaseScene ==
    [ environment |-> "studio_white",
      pose_preset |-> "front_standing",
      framing |-> "full_body" ]

\* OutputParams: count defaults to 3, resolution to "high"
DefaultOutput == [count |-> NumVariations, resolution |-> "high"]

BaseBody ==
    [ idempotency_key |-> Some("k1"),
      product_type |-> "clothing",
      garment_images |-> <<GarmentA>>,
      model_params |-> BaseModelParams,
      scene |-> BaseScene,
      output |-> DefaultOutput ]

\* The submissions of the pipeline specification: every garment stored, and
\* one garment missing from storage.
JobBodies ==
    { BaseBody,
      [BaseBody EXCEPT !.garment_images = <<GarmentA, GarmentB>>] }

\* The submissions of the submission specification: the base submission, one
\* variant per submitted parameter, one without a key, one with the empty
\* string for a key, one with a model reference photo that is stored and one
\* with a model reference photo that is not, and
\* submissions with no image, with the largest accepted number of images and
\* with one image more.
Bodies ==
    JobBodies \cup
    { [BaseBody EXCEPT !.idempotency_key = None],
      [BaseBody EXCEPT !.idempotency_key = Some("")],
      [BaseBody EXCEPT !.model_params.age_range = "45+"],
      [BaseBody EXCEPT !.product_type = "accessories"],
      [BaseBody EXCEPT !.scene.environment = "beach"],
      [BaseBody EXCEPT !.output.count = 1],
      [BaseBody EXCEPT !.model_params.model_photo_url = Some(PhotoA)],
      [BaseBody EXCEPT !.model_params.model_photo_url = Some(PhotoB)],
      [BaseBody EXCEPT !.output.resolution = "low"],
      [BaseBody EXCEPT !.garment_images = <<>>],
      [BaseBody EXCEPT !.garment_images = [k \in 1..MaxGarmentImages |-> GarmentA]],
      [BaseBody EXCEPT !.garment_images = [k \in 1..(MaxGarmentImages + 1) |-> GarmentA]] }

VARIABLES
    now,                 \* datetime.utcnow(), in minutes
    client,              \* which generate_garment_images the worker imports
    api_key,             \* settings.OPENROUTER_API_KEY
    storage,             \* the set of paths that hold bytes
    generation_request,  \* table: id -> row
    generation_output,   \* table: rows in insertion order
    usage_cost,          \* table: rows in insertion order
    enqueued,            \* id -> number of jobs put on the queue
    ulid,                \* number of ULIDs drawn
    ncreate,             \* create_generation calls started
    ndispatch,           \* generate_images dispatches started
    call,                \* caller -> position inside create_generation
    job,                 \* worker -> position inside generate_images
    last,                \* how the latest execution of generate_images ended
    gem,                 \* position inside generate_garment_images
    pa                   \* the prompt assembler: template files, cache, last call

vars == << now, client, api_key, storage, generation_request, generation_output,
           usage_cost, enqueued, ulid, ncreate, ndispatch, call, job, last,
           gem, pa >>

tables == << generation_request, generation_output, usage_cost >>

\* ---------------------------------------------------------------- models/db
\* A ULID without the prefix.
generate_gen_id_without_prefix(n) == <<"", n>>

\* generate_gen_id: "gen_" + str(ULID())
generate_gen_id(n) == <<"gen_", n>>

Ids == DOMAIN generation_request

\* db.query(GenerationRequest).filter(idempotency_key == key).first()
ExistingWithKey(key) ==
    {i \in Ids : generation_request[i].idempotency_key = key}

OutputsOf(id) ==
    SelectSeq(generation_output, LAMBDA r : r.generation_request_id = id)

UsageOf(id) ==
    SelectSeq(usage_cost, LAMBDA r : r.generation_request_id = id)

\* ------------------------------------------------------------ api/generations
\* body.model_params.model_dump() with product_type embedded
ModelParamsDict(body) ==
    body.model_params @@ [product_type |-> body.product_type]

\* json.dumps(d, sort_keys=True) of a flat dict: its items in key order
ModelParamKeys ==
    << "additional_description", "age_range", "body_mode", "body_type",
       "ethnicity", "gender_presentation", "hair_color", "hair_style",
       "measurements", "model_photo_url", "product_type", "skin_tone" >>

SceneKeys == << "environment", "framing", "pose_preset" >>

JsonObject(d, keys) ==
    LET present == SelectSeq(keys, LAMBDA k : k \in DOMAIN d)
    IN  [n \in 1..Len(present) |-> <<present[n], d[present[n]]>>]

\* json.dumps({"garment_images":..,"model_params":..,"scene_params":..},
\*            sort_keys=True)
JsonDumps(p) ==
    << p.garment_images,
       JsonObject(p.model_params, ModelParamKeys),
       JsonObject(p.scene_params, SceneKeys) >>

NewParams(body) ==
    [ garment_images |-> body.garment_images,
      model_params |-> ModelParamsDict(body),
      scene_params |-> body.scene ]

ExistingParams(existing) ==
    [ garment_images |-> existing.garment_image_urls,
      model_params |-> existing.model_params,
      scene_params |-> existing.scene_params ]

ParamsMatch(existing, body) ==
    JsonDumps(ExistingParams(existing)) = JsonDumps(NewParams(body))

\* ValidBody without the upper limit.
ValidBody_no_upper_limit(body) == Len(body.garment_images) >= 1

\* CreateGenerationRequest.garment_images: min_length=1, max_length=5
ValidBody(body) ==
    /\ Len(body.garment_images) >= 1
    /\ Len(body.garment_images) <= MaxGarmentImages

\* The cookies of a request that carries none of session_id, username, role.
NoCookies == [session_id |-> None, username |-> None, role |-> None]

NoCall == [pc |-> "idle", body |-> BaseBody, gen_id |-> None, resp |-> None,
           cookies |-> NoCookies]

\* The call returns; body keeps the submission it answered.
Respond(c, body, code, id, status) ==
    call' = [call EXCEPT ![c] =
        [ pc |-> "idle", body |-> body, gen_id |-> None, cookies |-> call[c].cookies,
          resp |-> Some([code |-> code, id |-> id, status |-> status]) ]]

\* The request is refused by validation before the handler body runs.
CreateRejected(c, body) ==
    /\ call[c].pc = "idle"
    /\ ncreate < MaxCreate
    /\ ~ValidBody(body)
    /\ ncreate' = ncreate + 1
    /\ Respond(c, body, 422, None, "")
    /\ UNCHANGED << gem, pa, now, client, api_key, storage, tables, enqueued, ulid, ndispatch, job, last >>

\* if body.idempotency_key:  (None and the empty string are both false)
Truthy(key) == key # None /\ key[1] # ""

\* An identical re-submission that puts the existing request back in the
\* queue state.
CreateExisting_requeues(c, body) ==
    /\ call[c].pc = "idle"
    /\ ncreate < MaxCreate
    /\ ValidBody(body)
    /\ Truthy(body.idempotency_key)
    /\ \E i \in {k \in DOMAIN generation_request :
                     generation_request[k].idempotency_key = body.idempotency_key} :
          /\ generation_request' = [generation_request EXCEPT ![i].status = "queued"]
          /\ call' = [call EXCEPT ![c] =
                [ pc |-> "idle", body |-> body, gen_id |-> None, cookies |-> call[c].cookies,
                  resp |-> Some([code |-> HTTP_CREATED, id |-> Some(i), status |-> "queued"]) ]]
    /\ ncreate' = ncreate + 1
    /\ UNCHANGED << gem, pa, now, client, api_key, storage, generation_output, usage_cost,
                    enqueued, ulid, ndispatch, job, last >>

\* if body.idempotency_key: existing = ...first(); identical -> return existing
CreateExisting(c, body) ==
    /\ call[c].pc = "idle"
    /\ ncreate < MaxCreate
    /\ ValidBody(body)
    /\ Truthy(body.idempotency_key)
    /\ \E i \in ExistingWithKey(body.idempotency_key) :
          /\ ParamsMatch(generation_request[i], body)
          /\ Respond(c, body, HTTP_CREATED, Some(i), generation_request[i].status)
    /\ ncreate' = ncreate + 1
    /\ UNCHANGED << gem, pa, now, client, api_key, storage, tables, enqueued, ulid, ndispatch, job, last >>

\* ... else: raise HTTPException(status_code=409)
CreateConflict(c, body) ==
    /\ call[c].pc = "idle"
    /\ ncreate < MaxCreate
    /\ ValidBody(body)
    /\ Truthy(body.idempotency_key)
    /\ \E i \in ExistingWithKey(body.idempotency_key) :
          ~ParamsMatch(generation_request[i], body)
    /\ ncreate' = ncreate + 1
    /\ Respond(c, body, HTTP_CONFLICT, None, "")
    /\ UNCHANGED << gem, pa, now, client, api_key, storage, tables, enqueued, ulid, ndispatch, job, last >>

\* no key, or no row holds the key: go on to build the row
CreateProceed(c, body) ==
    /\ call[c].pc = "idle"
    /\ ncreate < MaxCreate
    /\ ValidBody(body)
    /\ \/ ~Truthy(body.idempotency_key)
       \/ ExistingWithKey(body.idempotency_key) = {}
    /\ ncreate' = ncreate + 1
    /\ call' = [call EXCEPT ![c] =
          [pc |-> "insert", body |-> body, gen_id |-> None, resp |-> None,
           cookies |-> call[c].cookies]]
    /\ UNCHANGED << gem, pa, now, client, api_key, storage, tables, enqueued, ulid, ndispatch, job, last >>

NewRow(id, sess, body) ==
    [ id |-> id,
      session_id |-> sess,
      status |-> "queued",
      garment_image_urls |-> body.garment_images,
      model_params |-> ModelParamsDict(body),
      scene_params |-> body.scene,
      output_count |-> body.output.count,
      prompt_template_version |-> "v0.1",
      idempotency_key |-> body.idempotency_key,
      error_message |-> None,
      created_at |-> now,
      updated_at |-> now ]

\* A column without the unique constraint.
UniqueViolation_not_enforced(key) == FALSE

\* idempotency_key = Column(String, unique=True, nullable=True)
UniqueViolation(key) == key # None /\ ExistingWithKey(key) # {}

\* db.add(gen_request); db.commit(); db.refresh(gen_request)
CreateInsert(c) ==
    /\ call[c].pc = "insert"
    /\ LET body == call[c].body
           id == generate_gen_id(ulid + 1)
       IN  IF UniqueViolation(body.idempotency_key)
           THEN /\ Respond(c, body, 500, None, "")
                /\ UNCHANGED << generation_request, enqueued >>
           ELSE /\ generation_request' =
                      (id :> NewRow(id, Session1, body)) @@ generation_request
                /\ enqueued' = (id :> 0) @@ enqueued
                /\ call' = [call EXCEPT ![c].pc = "enqueue",
                                        ![c].gen_id = Some(id)]
    /\ ulid' = ulid + 1
    /\ UNCHANGED << gem, pa, now, client, api_key, storage, generation_output, usage_cost,
                    ncreate, ndispatch, job, last >>

\* queue.enqueue("app.worker.jobs.generate_images", gen_id, job_timeout=600)
CreateEnqueue(c) ==
    /\ call[c].pc = "enqueue"
    /\ LET id == call[c].gen_id[1]
       IN  /\ enqueued' = [enqueued EXCEPT ![id] = @ + 1]
           /\ Respond(c, call[c].body, HTTP_CREATED, Some(id), "queued")
    /\ UNCHANGED << gem, pa, now, client, api_key, storage, tables, ulid, ncreate, ndispatch, job, last >>

\* except Exception: pass  (Redis not available: the row stays queued)
CreateEnqueueFails(c) ==
    /\ call[c].pc = "enqueue"
    /\ Respond(c, call[c].body, HTTP_CREATED, call[c].gen_id, "queued")
    /\ UNCHANGED << gem, pa, now, client, api_key, storage, tables, enqueued, ulid, ncreate,
                    ndispatch, job, last >>

\* GET /v1/generations/{gen_id}: 404 when no row has the id, else the row's
\* id, status and error message.
get_generation_status(gen_id) ==
    IF gen_id \notin Ids
    THEN [code |-> 404, id |-> None, status |-> "", error_message |-> None]
    ELSE [code |-> 200,
          id |-> Some(generation_request[gen_id].id),
          status |-> generation_request[gen_id].status,
          error_message |-> generation_request[gen_id].error_message]

\* LocalStorageBackend.signed_download_url:
\*   clean_path = path.replace("local://", ""); return f"/v1/files/{clean_path}"
signed_download_url(url) == <<"/v1/files/", url.path>>

\* .order_by(GenerationOutput.variation_index): rows of one variation keep
\* the order of their insertion.
OrderByVariation(rows, n) ==
    IF n = 0
    THEN SelectSeq(rows, LAMBDA r : r.variation_index = 0)
    ELSE LET upto[k \in 0..n] ==
                 IF k = 0
                 THEN SelectSeq(rows, LAMBDA r : r.variation_index = 0)
                 ELSE upto[k - 1] \o SelectSeq(rows, LAMBDA r : r.variation_index = k)
         IN  upto[n]

\* GET /v1/generations/{id}/outputs
get_generation_outputs(gen_id) ==
    IF gen_id \notin Ids
    THEN [code |-> 404, id |-> None, status |-> "", outputs |-> << >>,
          error_message |-> None]
    ELSE LET gen == generation_request[gen_id]
             db_outputs == OrderByVariation(OutputsOf(gen_id), NumVariations - 1)
         IN  [code |-> 200,
              id |-> Some(gen.id),
              status |-> gen.status,
              outputs |-> IF gen.status = "succeeded"
                          THEN [k \in 1..Len(db_outputs) |->
                                  [image_url |-> signed_download_url(db_outputs[k].image_url)]]
                          ELSE << >>,
              error_message |-> gen.error_message]

\* get_history, the item built for one request of the page
HistoryItem(gen_id) ==
    LET gen == generation_request[gen_id]
        db_outputs == OrderByVariation(OutputsOf(gen_id), NumVariations - 1)
    IN  [id |-> gen.id,
         status |-> gen.status,
         created_at |-> gen.created_at,
         garment_image_urls |-> [k \in 1..Len(gen.garment_image_urls) |->
                                   signed_download_url(gen.garment_image_urls[k])],
         output_images |-> [k \in 1..Len(db_outputs) |->
                              [image_url |-> signed_download_url(db_outputs[k].image_url),
                               variation_index |-> db_outputs[k].variation_index]]]

\* GET /v1/history: the items of the first page (per_page = 12 holds every
\* request of the model), for the session of the cookie or, for an admin,
\* for every session.  The order of the page is left out.
get_history(session_id, is_admin) ==
    { HistoryItem(i) : i \in {k \in Ids : is_admin \/ generation_request[k].session_id = session_id} }

\* Another browser session than the submitting one.
Session2 == <<"sess_", 2>>

\* storage.delete(path) inside try ... except Exception: pass.  Neither
\* StorageBackend nor LocalStorageBackend nor GCSStorageBackend defines
\* delete: the attribute lookup raises AttributeError, which the except
\* clause swallows, and the stored bytes stay.
TryStorageDelete(stored, url) == stored

\* USERS: the role of each user the application knows.
USERS == ("aruni" :> "admin") @@ ("tester" :> "tester")

\* get_current_user(request): {"username": ..., "role": ...} built from the
\* two cookies when both are set and the username is one of USERS, else None.
\* The role is the one of the cookie.
get_current_user(cookies) ==
    IF /\ cookies.username # None
       /\ cookies.role # None
       /\ cookies.username[1] \in DOMAIN USERS
    THEN Some([username |-> cookies.username[1], role |-> cookies.role[1]])
    ELSE None

\* is_admin = user and user["role"] == "admin"
IsAdmin(cookies) ==
    get_current_user(cookies) # None /\ get_current_user(cookies)[1].role = "admin"

\* The cookies the deleting callers send: the session of the submissions or
\* another one; no login, the admin's login, the tester's login, the
\* tester's login with the role cookie set to admin, and an unknown user
\* with the role cookie set to admin.
DeleteCookies ==
    { [session_id |-> Some(sess), username |-> who[1], role |-> who[2]] :
        sess \in {Session1, Session2},
        who \in { <<None, None>>,
                  <<Some("aruni"), Some("admin")>>,
                  <<Some("tester"), Some("tester")>>,
                  <<Some("tester"), Some("admin")>>,
                  <<Some("mallory"), Some("admin")>> } }

\* The answer of delete_history_item to the caller with these cookies.
DeleteRespond(c, cookies, code, id) ==
    call' = [call EXCEPT ![c] =
        [ pc |-> "idle", body |-> call[c].body, gen_id |-> None, cookies |-> cookies,
          resp |-> Some([code |-> code, id |-> id, status |-> ""]) ]]

\* DELETE /v1/history/{gen_id}: no row with the id, or (for a caller who is
\* no admin) none that belongs to the session: 404
DeleteNotFound(c, cookies, gen_id) ==
    /\ call[c].pc = "idle"
    /\ \/ gen_id \notin Ids
       \/ (gen_id \in Ids /\ ~IsAdmin(cookies)
           /\ generation_request[gen_id].session_id # cookies.session_id[1])
    /\ DeleteRespond(c, cookies, 404, None)
    /\ UNCHANGED << gem, pa, now, client, api_key, storage, tables, enqueued, ulid, ncreate,
                    ndispatch, job, last >>

\* ------------------------------------------------------------- api/uploads
\* ACCEPTED_CONTENT_TYPES = {"image/jpeg", "image/png", "image/webp"}
ACCEPTED_CONTENT_TYPES == {"image/jpeg", "image/png", "image/webp"}
\* MAX_FILES = 5
MAX_FILES == 5
\* settings.UPLOAD_URL_EXPIRY_SECONDS
UPLOAD_URL_EXPIRY_SECONDS == 900

\* File names are sequences of characters; KeptChars are the characters of
\* the class [\w\-.] that the names of the model are made of.
\* name = re.sub(r"[^\w\-.]", "_", filename); return re.sub(r"_+", "_", name)
_sanitize_filename(filename) ==
    LET KeptChars == {"a", "b", "f", "g", "j", "m", "p", "_", "-", "."}
        name == [k \in 1..Len(filename) |->
                    IF filename[k] \in KeptChars THEN filename[k] ELSE "_"]
        collapsed[k \in 0..Len(name)] ==
            IF k = 0 THEN << >>
            ELSE IF name[k] = "_" /\ k > 1 /\ name[k - 1] = "_"
                 THEN collapsed[k - 1]
                 ELSE Append(collapsed[k - 1], name[k])
    IN  collapsed[Len(name)]

\* LocalStorageBackend.signed_upload_url: path.removeprefix("uploads/")
\* under /v1/uploads/direct/
signed_upload_url(path) ==
    IF path.dir = "uploads"
    THEN << "/v1/uploads/direct/", path.owner, path.name >>
    ELSE << "/v1/uploads/direct/", path.dir, path.owner, path.name >>

\* The body of the loop of sign_upload_urls for one accepted file.
UploadInfo(session_id, f) ==
    LET safe_filename == _sanitize_filename(f.filename)
        path == [dir |-> IF f.kind = "model_photo" THEN "model-photos" ELSE "uploads",
                 owner |-> session_id,
                 name |-> safe_filename]
    IN  [ filename |-> safe_filename,
          upload_url |-> signed_upload_url(path),
          file_url |-> LocalUrl(path) ]

\* A handler that leaves out the files it does not accept.
sign_upload_urls_skips_unsupported(session_id, files) ==
    LET accepted == SelectSeq(files, LAMBDA f : f.content_type \in ACCEPTED_CONTENT_TYPES)
    IN  [ code |-> 200,
          uploads |-> [k \in 1..Len(accepted) |-> UploadInfo(session_id, accepted[k])],
          expires_in_seconds |-> UPLOAD_URL_EXPIRY_SECONDS ]

\* POST /v1/uploads/sign: 400 for more than MAX_FILES files, for none, and
\* at the first file of a type that is not accepted (the raise leaves the
\* loop and the entries built so far are dropped); else an entry per file.
sign_upload_urls(session_id, files) ==
    LET Rejected == [code |-> 400, uploads |-> << >>, expires_in_seconds |-> 0]
        loop[k \in 0..Len(files)] ==
            IF k = 0
            THEN [code |-> 200, uploads |-> << >>,
                  expires_in_seconds |-> UPLOAD_URL_EXPIRY_SECONDS]
            ELSE IF loop[k - 1].code # 200
                 THEN loop[k - 1]
                 ELSE IF files[k].content_type \notin ACCEPTED_CONTENT_TYPES
                      THEN Rejected
                      ELSE [loop[k - 1] EXCEPT
                              !.uploads = Append(@, UploadInfo(session_id, files[k]))]
    IN  IF Len(files) > MAX_FILES THEN Rejected
        ELSE IF Len(files) = 0 THEN Rejected
        ELSE loop[Len(files)]

\* The files a sign request is made of: a garment image, a model photo whose
\* name has two spaces and a slash, a PDF, and a WEBP garment image.
FileChoices ==
    { [kind |-> "image", filename |-> <<"f", ".", "j">>, content_type |-> "image/jpeg"],
      [kind |-> "model_photo", filename |-> <<"m", " ", " ", "p", "/", "_", "g">>,
       content_type |-> "image/png"],
      [kind |-> "image", filename |-> <<"a", ".", "p">>, content_type |-> "application/pdf"],
      [kind |-> "image", filename |-> <<"b", "-", "a">>, content_type |-> "image/webp"] }

\* A sign request that has not been sent yet and has no file.
NoSign == [endpoint |-> "sign", files |-> << >>, session_id |-> None, code |-> 0,
           uploads |-> << >>, expires_in_seconds |-> 0]

\* The sign request of the caller, and its answer once it is sent.
UploadCall(c) == IF call[c].resp = None THEN NoSign ELSE call[c].resp[1]

\* The client adds a file to the request it is going to send.
SignRequestGrows(c, f) ==
    /\ call[c].pc = "idle"
    /\ UploadCall(c).code = 0
    /\ Len(UploadCall(c).files) <= MAX_FILES
    /\ call' = [call EXCEPT ![c].resp =
                   Some([UploadCall(c) EXCEPT !.files = Append(@, f)])]
    /\ UNCHANGED << gem, pa, now, client, api_key, storage, tables, enqueued, ulid, ncreate,
                    ndispatch, job, last >>

\* The request is sent and sign_upload_urls answers it.
SignUploadUrls(c, session_id) ==
    /\ call[c].pc = "idle"
    /\ UploadCall(c).code = 0
    /\ LET r == sign_upload_urls(session_id, UploadCall(c).files)
       IN  call' = [call EXCEPT ![c].resp =
                       Some([UploadCall(c) EXCEPT
                               !.session_id = Some(session_id),
                               !.code = r.code,
                               !.uploads = r.uploads,
                               !.expires_in_seconds = r.expires_in_seconds])]
    /\ UNCHANGED << gem, pa, now, client, api_key, storage, tables, enqueued, ulid, ncreate,
                    ndispatch, job, last >>

\* GET /v1/generations/{id}/status-partial: the fragment is rendered from
\* the row's status and error message; 404 with a fixed fragment when no
\* row has the id.
get_generation_status_partial(gen_id) ==
    IF gen_id \notin Ids
    THEN [code |-> 404, status |-> "", error_message |-> None]
    ELSE [code |-> 200,
          status |-> generation_request[gen_id].status,
          error_message |-> generation_request[gen_id].error_message]

\* What a read endpoint answers: the endpoint, the status code, and the
\* fields of its response model (the others are empty).
ReadResponse(endpoint, code, status, error_message, outputs, items) ==
    [ endpoint |-> endpoint, code |-> code, status |-> status,
      error_message |-> error_message, outputs |-> outputs, items |-> items ]

\* A read endpoint returns: the response goes to the caller, and the handler
\* has issued queries only.
ReadReturns(c, response) ==
    /\ call[c].pc = "idle"
    /\ call' = [call EXCEPT ![c].resp = Some(response)]
    /\ UNCHANGED << gem, pa, now, client, api_key, storage, tables, enqueued, ulid, ncreate,
                    ndispatch, job, last >>

GetStatus(c, gen_id) ==
    LET r == get_generation_status(gen_id)
    IN  ReadReturns(c, ReadResponse("status", r.code, r.status, r.error_message, << >>, {}))

GetOutputs(c, gen_id) ==
    LET r == get_generation_outputs(gen_id)
    IN  ReadReturns(c, ReadResponse("outputs", r.code, r.status, r.error_message,
                                    r.outputs, {}))

GetStatusPartial(c, gen_id) ==
    LET r == get_generation_status_partial(gen_id)
    IN  ReadReturns(c, ReadResponse("status-partial", r.code, r.status, r.error_message,
                                    << >>, {}))

GetHistory(c, cookies) ==
    ReadReturns(c, ReadResponse("history", 200, "", None, << >>,
                                get_history(cookies.session_id[1], IsAdmin(cookies))))

\* DELETE /v1/history/{gen_id}: storage.delete for every output row and
\* every garment image, then the output rows, the usage rows and the request
\* are deleted and the session commits: 204
delete_history_item(c, cookies, gen_id) ==
    /\ call[c].pc = "idle"
    /\ gen_id \in Ids
    /\ (IsAdmin(cookies) \/ generation_request[gen_id].session_id = cookies.session_id[1])
    /\ LET gen == generation_request[gen_id]
           outputs == OutputsOf(gen_id)
           after_outputs[k \in 0..Len(outputs)] ==
               IF k = 0 THEN storage
               ELSE TryStorageDelete(after_outputs[k - 1], outputs[k].image_url)
           after_garments[k \in 0..Len(gen.garment_image_urls)] ==
               IF k = 0 THEN after_outputs[Len(outputs)]
               ELSE TryStorageDelete(after_garments[k - 1], gen.garment_image_urls[k])
       IN  storage' = after_garments[Len(gen.garment_image_urls)]
    /\ generation_output' =
          SelectSeq(generation_output, LAMBDA r : r.generation_request_id # gen_id)
    /\ usage_cost' =
          SelectSeq(usage_cost, LAMBDA r : r.generation_request_id # gen_id)
    /\ generation_request' =
          [i \in Ids \ {gen_id} |-> generation_request[i]]
    /\ DeleteRespond(c, cookies, 204, Some(gen_id))
    /\ UNCHANGED << gem, pa, now, client, api_key, enqueued, ulid, ncreate, ndispatch,
                    job, last >>

\* ------------------------------------------------------------------- clock
\* The instants at which the model reads the clock: the start, the last
\* minute inside the staleness threshold, and every minute from the threshold on.
Instants == {0, STALE_THRESHOLD - 1} \cup (STALE_THRESHOLD..MaxTime)

Tick ==
    /\ now' \in Instants
    /\ now' > now
    /\ UNCHANGED << gem, pa, client, api_key, storage, tables, enqueued, ulid, ncreate,
                    ndispatch, call, job, last >>

\* -------------------------------------------------------------- worker/jobs
\* ------------------------------------------------------- services/prompt
\* dict.get(key, default)
Get(d, key, default) == IF key \in DOMAIN d THEN d[key] ELSE default

\* A template section without entries.
NoMapping == [k \in {} |-> ""]

\* The prompt template prompts/v0_1.yaml as load_template returns it: a
\* mapping from preset keys to text per section, and three text blocks.  The
\* file is not part of the sources; this is a template that maps the presets
\* of the base submission and one preset of every further section.
TemplateV01 ==
    [ environments  |-> [k \in {"studio_white"} |-> "a clean white studio backdrop"],
      poses         |-> [k \in {"front_standing"} |-> "standing, facing the camera"],
      framing       |-> [k \in {"full_body"} |-> "full body, head to toe"],
      lighting      |-> [k \in {"studio_white"} |-> "soft, even studio lighting"],
      product_types |-> [k \in {"clothing"} |-> "wearing the garment shown in the reference image(s) as clothing"],
      ethnicities   |-> [k \in {"south_asian"} |-> "South Asian appearance"],
      hair_styles   |-> [k \in {"long_straight"} |-> "long straight hair"],
      hair_colors   |-> [k \in {"black"} |-> "black hair"],
      quality |-> "Sharp focus, natural skin texture.\n",
      output |-> "One image, portrait orientation.\n",
      negative |-> "No text, no watermark.\n" ]

\* A template that has the three text blocks and no section at all.
TemplateBare ==
    [ quality |-> "Sharp focus, natural skin texture.\n",
      output |-> "One image, portrait orientation.\n",
      negative |-> "No text, no watermark.\n" ]

\* str.strip() on the texts of the model
strip(text) ==
    CASE text = "Sharp focus, natural skin texture.\n" -> "Sharp focus, natural skin texture."
      [] text = "One image, portrait orientation.\n" -> "One image, portrait orientation."
      [] text = "No text, no watermark.\n" -> "No text, no watermark."
      [] text = " with a red scarf " -> "with a red scarf"
      [] OTHER -> text

\* _build_measurements_text: the parts in the order of the code, each as
\* (text before, key, text after)
MeasurementParts ==
    << <<"", "height_cm", " cm tall">>,
       <<"", "weight_kg", " kg">>,
       <<"chest/bust ", "chest_bust_cm", " cm">>,
       <<"waist ", "waist_cm", " cm">>,
       <<"hips ", "hips_cm", " cm">>,
       <<"inseam ", "inseam_cm", " cm">>,
       <<"shoe size EU ", "shoe_size_eu", "">> >>

\* _build_measurements_text(measurements): ", ".join(parts) as a sequence of
\* text pieces; a measurement is the text of its number, or None.
build_measurements_text(measurements) ==
    IF measurements = None
    THEN << >>
    ELSE LET m == measurements[1]
             given == SelectSeq(MeasurementParts,
                                LAMBDA p : Get(m, p[2], None) # None)
             joined[k \in 0..Len(given)] ==
                 IF k = 0 THEN << >>
                 ELSE joined[k - 1]
                        \o (IF k > 1 THEN <<", ">> ELSE << >>)
                        \o <<given[k][1], m[given[k][2]][1], given[k][3]>>
         IN  joined[Len(given)]

\* The model line of the reference-photo mode.
ReferencePhotoLine ==
    "MODEL: Use the exact appearance, face, skin tone, and body proportions of the person in the model reference photo. Do not alter or idealise their appearance."

\* assemble_prompt(model_params, scene_params, template_version), with the
\* template that load_template(template_version) returned.  The prompt is
\* the sequence of the text pieces the f-strings put together.
assemble_prompt(model_params, scene_params, template) ==
    LET environment == Get(scene_params, "environment", "studio_white")
        pose_preset == Get(scene_params, "pose_preset", "front_standing")
        framing == Get(scene_params, "framing", "full_body")
        env_desc == Get(Get(template, "environments", NoMapping), environment, environment)
        pose_desc == Get(Get(template, "poses", NoMapping), pose_preset, pose_preset)
        framing_desc == Get(Get(template, "framing", NoMapping), framing, framing)
        lighting_desc == Get(Get(template, "lighting", NoMapping), environment, "")
        product_type == Get(model_params, "product_type", "clothing")
        pt_desc == Get(Get(template, "product_types", NoMapping), product_type,
                       "wearing the garment shown in the reference image(s)")
        measure_text == build_measurements_text(Get(model_params, "measurements", None))
        quality == strip(Get(template, "quality", ""))
        output_instructions == strip(Get(template, "output", ""))
        negative == strip(Get(template, "negative", ""))
        model_photo_url == Get(model_params, "model_photo_url", None)
        age_range == Get(model_params, "age_range", "25-34")
        gender == Get(model_params, "gender_presentation", "feminine")
        skin_tone == Get(model_params, "skin_tone", "4")
        body_type == Get(model_params, "body_type", "average")
        ethnicity == Get(model_params, "ethnicity", "")
        hair_style == Get(model_params, "hair_style", "")
        hair_color == Get(model_params, "hair_color", "")
        additional_description == strip(Get(model_params, "additional_description", ""))
        ethnicity_desc == IF ethnicity # ""
                          THEN Get(Get(template, "ethnicities", NoMapping), ethnicity, "")
                          ELSE ""
        hair_style_desc == IF hair_style # ""
                           THEN Get(Get(template, "hair_styles", NoMapping), hair_style, "")
                           ELSE ""
        hair_color_desc == IF hair_color # ""
                           THEN Get(Get(template, "hair_colors", NoMapping), hair_color, "")
                           ELSE ""
        model_desc ==
            << "A ", gender, " model, age ", age_range, ", Fitzpatrick skin tone ",
               skin_tone, ", ", body_type, " body type" >>
            \o (IF ethnicity_desc # "" THEN <<", ", ethnicity_desc>> ELSE << >>)
            \o (IF hair_color_desc # "" /\ hair_style_desc # ""
                THEN <<", ", hair_color_desc, ", ", hair_style_desc>>
                ELSE IF hair_style_desc # "" THEN <<", ", hair_style_desc>>
                ELSE IF hair_color_desc # "" THEN <<", ", hair_color_desc>>
                ELSE << >>)
            \o (IF additional_description # ""
                THEN <<". Additional details: ", additional_description>> ELSE << >>)
            \o (IF measure_text # << >>
                THEN <<". Measurements: ">> \o measure_text ELSE << >>)
        intro ==
            IF model_photo_url # None
            THEN << "Generate a photorealistic catalogue image of the PERSON shown in the first reference image (model reference photo), ",
                    pt_desc, "." >>
            ELSE << "Generate a photorealistic catalogue image of a model ", pt_desc, "." >>
        model_line ==
            IF model_photo_url # None
            THEN <<ReferencePhotoLine>>
                 \o (IF measure_text # << >>
                     THEN <<" Reference measurements: ">> \o measure_text \o <<".">>
                     ELSE << >>)
            ELSE <<"MODEL: ">> \o model_desc
    IN  intro \o <<"\n\n">> \o model_line
        \o << "\n\nPOSE: ", pose_desc,
              "\n\nFRAMING: ", framing_desc,
              "\n\nENVIRONMENT: ", env_desc,
              "\n\nLIGHTING: ", lighting_desc,
              "\n\nQUALITY REQUIREMENTS:\n", quality,
              "\n\nOUTPUT REQUIREMENTS:\n", output_instructions,
              "\n\nNEGATIVE (avoid these):\n", negative >>

\* filename = version.replace(".", "_") + ".yaml"
TemplateFile(version) ==
    CASE version = "v0.1" -> "v0_1.yaml"
      [] version = "v0.2" -> "v0_2.yaml"
      [] version = "v0.3" -> "v0_3.yaml"
      [] OTHER -> "other.yaml"

\* The prompts directory and the empty _template_cache, before any call.
NoPrompt == [kind |-> "none", text |-> << >>]

InitialAssembler ==
    [ files |-> ("v0_1.yaml" :> TemplateV01) @@ ("v0_2.yaml" :> TemplateBare),
      template_cache |-> [v \in {} |-> TemplateBare],
      reads |-> [v \in {"v0.1", "v0.2", "v0.3"} |-> 0],
      args |-> None,
      result |-> NoPrompt ]

\* load_template that reads the file on every call.
load_template_uncached(version) ==
    IF TemplateFile(version) \notin DOMAIN pa.files
    THEN None
    ELSE Some(pa.files[TemplateFile(version)])

\* load_template(version): the cached template, or the file's, or
\* FileNotFoundError (None here)
load_template(version) ==
    IF version \in DOMAIN pa.template_cache
    THEN Some(pa.template_cache[version])
    ELSE IF TemplateFile(version) \notin DOMAIN pa.files
         THEN None
         ELSE Some(pa.files[TemplateFile(version)])

\* The calls of assemble_prompt that the prompt specification makes: the
\* model parameters of the base submission and variants of them with a
\* preset the template maps, a preset it does not map, a reference photo,
\* measurements and a free text.
BasePromptParams == ModelParamsDict(BaseBody)

SomeMeasurements ==
    Some([height_cm |-> Some("170"), weight_kg |-> None, waist_cm |-> Some("70")])

PromptModelParams ==
    { BasePromptParams,
      [BasePromptParams EXCEPT !.ethnicity = "south_asian"],
      [BasePromptParams EXCEPT !.ethnicity = "nordic"],
      [BasePromptParams EXCEPT !.hair_style = "long_straight"],
      [BasePromptParams EXCEPT !.hair_style = "mohawk"],
      [BasePromptParams EXCEPT !.hair_color = "black"],
      [BasePromptParams EXCEPT !.hair_color = "green"],
      [BasePromptParams EXCEPT !.hair_color = "black", !.hair_style = "long_straight"],
      [BasePromptParams EXCEPT !.product_type = "accessories"],
      [BasePromptParams EXCEPT !.model_photo_url = Some(PhotoA)],
      [BasePromptParams EXCEPT !.model_photo_url = Some(PhotoA), !.ethnicity = "nordic"],
      [BasePromptParams EXCEPT !.measurements = SomeMeasurements],
      [BasePromptParams EXCEPT !.model_photo_url = Some(PhotoA),
                               !.measurements = SomeMeasurements],
      [BasePromptParams EXCEPT !.additional_description = " with a red scarf "] }

PromptScenes ==
    { BaseScene,
      [BaseScene EXCEPT !.environment = "beach"],
      [BaseScene EXCEPT !.pose_preset = "walking"],
      [BaseScene EXCEPT !.framing = "close_up"] }

Versions == {"v0.1", "v0.2", "v0.3"}

\* The calls made: every model with the base scene, and every scene with
\* the base model.
PromptCalls ==
    { << m, BaseScene >> : m \in PromptModelParams }
        \cup { << BasePromptParams, sc >> : sc \in PromptScenes }

\* assemble_prompt(model_params, scene_params, template_version) returns
AssembleReturns(model_params, scene_params, template_version) ==
    /\ load_template(template_version) # None
    /\ pa' = [pa EXCEPT
          !.template_cache = (template_version :> load_template(template_version)[1]) @@ @,
          !.reads[template_version] =
                IF template_version \in DOMAIN pa.template_cache THEN @ ELSE @ + 1,
          !.args = Some([model_params |-> model_params,
                         scene_params |-> scene_params,
                         template_version |-> template_version]),
          !.result = [kind |-> "prompt",
                      text |-> assemble_prompt(model_params, scene_params,
                                               load_template(template_version)[1])]]
    /\ UNCHANGED << gem, now, client, api_key, storage, tables, enqueued, ulid, ncreate,
                    ndispatch, call, job, last >>

\* raise FileNotFoundError(f"Prompt template not found: {filepath}")
AssembleRaises(model_params, scene_params, template_version) ==
    /\ load_template(template_version) = None
    /\ pa' = [pa EXCEPT
          !.args = Some([model_params |-> model_params,
                         scene_params |-> scene_params,
                         template_version |-> template_version]),
          !.result = [kind |-> "FileNotFoundError", text |-> << >>]]
    /\ UNCHANGED << gem, now, client, api_key, storage, tables, enqueued, ulid, ncreate,
                    ndispatch, call, job, last >>

\* The prompts directory changes while the process runs: the file of
\* version v0.3 is put there, or the file of version v0.1 is replaced.
TemplateFileWritten(filename, template) ==
    /\ IF filename \in DOMAIN pa.files THEN pa.files[filename] # template ELSE TRUE
    /\ pa' = [pa EXCEPT !.files = (filename :> template) @@ @]
    /\ UNCHANGED << gem, now, client, api_key, storage, tables, enqueued, ulid, ncreate,
                    ndispatch, call, job, last >>

\* The file of version v0.3 is taken away again.
TemplateFileRemoved(filename) ==
    /\ filename \in DOMAIN pa.files
    /\ pa' = [pa EXCEPT !.files = [f \in DOMAIN pa.files \ {filename} |-> pa.files[f]]]
    /\ UNCHANGED << gem, now, client, api_key, storage, tables, enqueued, ulid, ncreate,
                    ndispatch, call, job, last >>

NoJob ==
    [ pc |-> "idle", id |-> None, seen_status |-> "", ran |-> FALSE,
      images |-> <<>>, pending_outputs |-> <<>>, pending_usage |-> <<>>,
      msg |-> None, ncalls |-> 0, prompt_text |-> None,
      model_photo_bytes |-> None, gen |-> None ]

Gen(w) == generation_request[job[w].id[1]]

\* The attributes of gen that the session holds once gen.garment_image_urls
\* has been read after the commit of step 1 (the commit expires the object,
\* the read loads it again); the job reads them from the object afterwards.
Loaded(gen) == [model_params |-> gen.model_params, scene_params |-> gen.scene_params]

\* storage.load: strip the local:// prefix, FileNotFoundError if absent
Loadable(url) == url.path \in storage

VariationFile(i) == <<"variation_0.jpg", "variation_1.jpg", "variation_2.jpg">>[i + 1]

\* f"outputs/{generation_request_id}/variation_{i}.jpg"
OutputPath(id, i) == [dir |-> "outputs", owner |-> id, name |-> VariationFile(i)]

\* AlreadyRunning with the age comparison the wrong way round.
AlreadyRunning_older_than_threshold(gen) ==
    /\ gen.status = "running"
    /\ (now - gen.updated_at) > STALE_THRESHOLD

\* if gen.status == "running":
\*     if gen.updated_at and (utcnow() - gen.updated_at) < STALE_THRESHOLD: return
AlreadyRunning(gen) ==
    /\ gen.status = "running"
    /\ (now - gen.updated_at) < STALE_THRESHOLD

\* The job leaves generate_images (return, or the end of the handler).
Returned(w, how) ==
    /\ job' = [job EXCEPT ![w] = NoJob]
    /\ last' = [how |-> how, ran |-> job[w].ran]

Dispatchable(w, id) ==
    /\ job[w].pc = "idle"
    /\ ndispatch < MaxDispatch
    /\ id \in Ids
    /\ enqueued[id] > 0

\* gen = db.query(GenerationRequest).filter(id == ...).first(); the record is
\* running and fresh: return
SkipRunning(w, id) ==
    /\ Dispatchable(w, id)
    /\ AlreadyRunning(generation_request[id])
    /\ ndispatch' = ndispatch + 1
    /\ UNCHANGED job
    /\ last' = [how |-> "skipped", ran |-> FALSE]
    /\ UNCHANGED << gem, pa, now, client, api_key, storage, tables, enqueued, ulid, ncreate, call >>

\* the record is queued, terminal, or running and stale: go on
PassGuard(w, id) ==
    /\ Dispatchable(w, id)
    /\ ~AlreadyRunning(generation_request[id])
    /\ ndispatch' = ndispatch + 1
    /\ job' = [job EXCEPT ![w] =
          [ NoJob EXCEPT !.pc = "guard", !.id = Some(id),
                         !.seen_status = generation_request[id].status ]]
    /\ UNCHANGED << gem, pa, now, client, api_key, storage, tables, enqueued, ulid, ncreate, call, last >>

\* the first query raises: straight to the except clause
LoadRaises(w, id) ==
    /\ Dispatchable(w, id)
    /\ ndispatch' = ndispatch + 1
    /\ job' = [job EXCEPT ![w] = [NoJob EXCEPT !.pc = "handler", !.id = Some(id)]]
    /\ UNCHANGED << gem, pa, now, client, api_key, storage, tables, enqueued, ulid, ncreate, call, last >>

\* db.commit(): the session's changed row and its pending rows become visible
CommitSession(j, status, error) ==
    LET id == j.id[1]
    IN  /\ generation_request' = [generation_request EXCEPT
               ![id].status = status,
               ![id].error_message = error,
               ![id].updated_at = now]
        /\ generation_output' = generation_output \o j.pending_outputs
        /\ usage_cost' = usage_cost \o j.pending_usage

\* Rollback that leaves the added rows pending in the session.
Rollback_keeps_pending(j) == j

\* a failed commit rolls the session back: pending rows are expunged
Rollback(j) == [j EXCEPT !.pending_outputs = <<>>, !.pending_usage = <<>>]

\* Step 1 left to the end of the job: the execution goes on to the storage
\* loads with the record as it was.
CommitRunning_deferred(w) ==
    /\ job[w].pc = "guard"
    /\ job' = [job EXCEPT ![w].pc = "fetch", ![w].ran = TRUE]
    /\ UNCHANGED << gem, pa, now, client, api_key, storage, tables, enqueued, ulid, ncreate,
                    ndispatch, call, last >>

\* gen.status = "running"; gen.updated_at = utcnow(); db.commit()
CommitRunning(w) ==
    /\ job[w].pc = "guard"
    /\ CommitSession(job[w], "running", Gen(w).error_message)
    /\ job' = [job EXCEPT ![w].pc = "fetch", ![w].ran = TRUE]
    /\ UNCHANGED << gem, pa, now, client, api_key, storage, enqueued, ulid, ncreate, ndispatch, call, last >>

CommitRunningRaises(w) ==
    /\ job[w].pc = "guard"
    /\ job' = [job EXCEPT ![w] = [Rollback(job[w]) EXCEPT !.pc = "handler"]]
    /\ UNCHANGED << gem, pa, now, client, api_key, storage, tables, enqueued, ulid, ncreate,
                    ndispatch, call, last >>

\* A loader that passes over the images it cannot load.
MissingGarments_skipped(w) == {}

MissingGarments(w) ==
    {k \in 1..Len(Gen(w).garment_image_urls) : ~Loadable(Gen(w).garment_image_urls[k])}

FirstMissing(w) ==
    CHOOSE k \in MissingGarments(w) : \A m \in MissingGarments(w) : k <= m

\* for image_url in gen.garment_image_urls: storage.load(image_url)
FetchGarments(w) ==
    /\ job[w].pc = "fetch"
    /\ MissingGarments(w) = {}
    /\ Len(Gen(w).garment_image_urls) > 0
    /\ job' = [job EXCEPT ![w].pc = "prompt", ![w].gen = Some(Loaded(Gen(w)))]
    /\ UNCHANGED << gem, pa, now, client, api_key, storage, tables, enqueued, ulid, ncreate,
                    ndispatch, call, last >>

\* except FileNotFoundError: _fail_generation(db, gen, "Garment image not found: ...")
GarmentMissing(w) ==
    /\ job[w].pc = "fetch"
    /\ MissingGarments(w) # {}
    /\ job' = [job EXCEPT ![w].pc = "fail",
          ![w].msg = Some(<<"Garment image not found: ",
                            <<Gen(w).garment_image_urls[FirstMissing(w)]>> >>)]
    /\ UNCHANGED << gem, pa, now, client, api_key, storage, tables, enqueued, ulid, ncreate,
                    ndispatch, call, last >>

\* prompt_text = assemble_prompt(...); then the optional model photo
AssemblePrompt(w) ==
    /\ job[w].pc = "prompt"
    /\ LET model_photo_url == job[w].gen[1].model_params.model_photo_url
       IN  job' = [job EXCEPT
              ![w].pc = "api",
              ![w].prompt_text = Some(assemble_prompt(job[w].gen[1].model_params,
                                                      job[w].gen[1].scene_params,
                                                      TemplateV01)),
              ![w].model_photo_bytes =
                    IF model_photo_url # None /\ Loadable(model_photo_url[1])
                    THEN model_photo_url ELSE None]
    /\ UNCHANGED << gem, pa, now, client, api_key, storage, tables, enqueued, ulid, ncreate,
                    ndispatch, call, last >>

\* except Exception as e: _fail_generation(db, gen, f"Prompt assembly failed: {e}")
PromptFails(w) ==
    /\ job[w].pc = "prompt"
    /\ job' = [job EXCEPT ![w].pc = "fail",
          ![w].msg = Some(<<"Prompt assembly failed: ", <<"FileNotFoundError">> >>)]
    /\ UNCHANGED << gem, pa, now, client, api_key, storage, tables, enqueued, ulid, ncreate,
                    ndispatch, call, last >>

\* raise GeminiError("OPENROUTER_API_KEY is not configured.")
NotConfigured == "OPENROUTER_API_KEY is not configured."

\* The keywords of the call at jobs.py:133 and the parameters of
\* generate_garment_images at gemini.py:168.
CallKeywords == {"garment_image_bytes", "prompt_text", "model_photo_bytes"}
ClientParameters(c) ==
    IF c = "gemini_py"
    THEN {"garment_image_bytes", "prompt_text", "model_name", "max_retries"}
    ELSE CallKeywords

\* Python binds a keyword call only if every keyword names a parameter.
CallBinds(c) == CallKeywords \subseteq ClientParameters(c)

\* TypeError (unexpected keyword argument): except Exception ->
\* _fail_generation(db, gen, f"Unexpected error during generation: {e}")
ClientRejectsCall(w) ==
    /\ job[w].pc = "api"
    /\ ~CallBinds(client)
    /\ job' = [job EXCEPT ![w].pc = "fail", ![w].ncalls = @ + 1,
          ![w].msg = Some(<<"Unexpected error during generation: ", <<"TypeError">> >>)]
    /\ UNCHANGED << gem, pa, now, client, api_key, storage, tables, enqueued, ulid, ncreate,
                    ndispatch, call, last >>

\* result = generate_garment_images(...): one image per variation
ClientReturns(w) ==
    /\ job[w].pc = "api"
    /\ CallBinds(client)
    /\ api_key # ""
    /\ job' = [job EXCEPT ![w].pc = "save", ![w].ncalls = @ + 1,
                          ![w].images = [k \in 1..NumVariations |-> k - 1]]
    /\ UNCHANGED << gem, pa, now, client, api_key, storage, tables, enqueued, ulid, ncreate,
                    ndispatch, call, last >>

\* except GeminiError as e: _fail_generation(db, gen, f"Gemini API error: {e}")
ClientRaises(w) ==
    /\ job[w].pc = "api"
    /\ CallBinds(client)
    /\ job' = [job EXCEPT ![w].pc = "fail", ![w].ncalls = @ + 1,
          ![w].msg = Some(<<"Gemini API error: ",
                            <<IF api_key = "" THEN NotConfigured ELSE "GeminiError">> >>)]
    /\ UNCHANGED << gem, pa, now, client, api_key, storage, tables, enqueued, ulid, ncreate,
                    ndispatch, call, last >>

\* Step 7 that goes on to the rows without saving the images.
SaveOutputs_nothing_saved(w) ==
    /\ job[w].pc = "save"
    /\ job' = [job EXCEPT ![w].pc = "rows"]
    /\ UNCHANGED << gem, pa, now, client, api_key, storage, tables, enqueued, ulid, ncreate,
                    ndispatch, call, last >>

\* for i, img_bytes in enumerate(result.images): storage.save(img_bytes, path)
SaveOutputs(w) ==
    /\ job[w].pc = "save"
    /\ storage' = storage \cup
          {OutputPath(job[w].id[1], k - 1) : k \in 1..Len(job[w].images)}
    /\ job' = [job EXCEPT ![w].pc = "rows"]
    /\ UNCHANGED << gem, pa, now, client, api_key, tables, enqueued, ulid, ncreate, ndispatch, call, last >>

\* storage.save raises at image n+1: the first n images are on disk
SaveRaises(w, n) ==
    /\ job[w].pc = "save"
    /\ n < Len(job[w].images)
    /\ storage' = storage \cup {OutputPath(job[w].id[1], k - 1) : k \in 1..n}
    /\ job' = [job EXCEPT ![w].pc = "handler"]
    /\ UNCHANGED << gem, pa, now, client, api_key, tables, enqueued, ulid, ncreate, ndispatch, call, last >>

\* image_url=f"local://{path}" if settings.STORAGE_BACKEND == "local" else path
OutputRow(id, i) ==
    [ generation_request_id |-> id,
      image_url |-> LocalUrl(OutputPath(id, i)),
      variation_index |-> i ]

UsageRow(id) ==
    [ generation_request_id |-> id,
      provider |-> "google_gemini",
      estimated_cost_usd |-> "0.02" ]

\* steps 8 and 9: db.add(output) per image, db.add(usage)
InsertRows(j) ==
    [ j EXCEPT
        !.pending_outputs = [k \in 1..Len(j.images) |-> OutputRow(j.id[1], k - 1)],
        !.pending_usage = <<UsageRow(j.id[1])>> ]

\* steps 8 to 10: the rows are added to the session, then
\* gen.status = "succeeded"; gen.updated_at = utcnow(); db.commit()
CommitSucceeded(w) ==
    /\ job[w].pc = "rows"
    /\ CommitSession(InsertRows(job[w]), "succeeded",
                     generation_request[job[w].id[1]].error_message)
    /\ Returned(w, "succeeded")
    /\ UNCHANGED << gem, pa, now, client, api_key, storage, enqueued, ulid, ncreate, ndispatch, call >>

\* the final commit raises
FinalCommitRaises(w) ==
    /\ job[w].pc = "rows"
    /\ job' = [job EXCEPT ![w] = [Rollback(InsertRows(job[w])) EXCEPT !.pc = "handler"]]
    /\ UNCHANGED << gem, pa, now, client, api_key, storage, tables, enqueued, ulid, ncreate,
                    ndispatch, call, last >>

\* _fail_generation: status = "failed", error_message, updated_at, db.commit()
fail_generation(w) ==
    /\ job[w].pc = "fail"
    /\ CommitSession(job[w], "failed", job[w].msg)
    /\ Returned(w, "failed")
    /\ UNCHANGED << gem, pa, now, client, api_key, storage, enqueued, ulid, ncreate, ndispatch, call >>

\* the commit inside _fail_generation raises: on to the except clause
FailCommitRaises(w) ==
    /\ job[w].pc = "fail"
    /\ job' = [job EXCEPT ![w] = [Rollback(job[w]) EXCEPT !.pc = "handler"]]
    /\ UNCHANGED << gem, pa, now, client, api_key, storage, tables, enqueued, ulid, ncreate,
                    ndispatch, call, last >>

\* except Exception as e: gen = query...first(); if gen: _fail_generation(...)
HandleUnhandled(w) ==
    /\ job[w].pc = "handler"
    /\ IF job[w].id[1] \in Ids
       THEN CommitSession(job[w], "failed", Some(<<"Unhandled error: ", <<"Exception">> >>))
       ELSE UNCHANGED tables
    /\ Returned(w, "failed")
    /\ UNCHANGED << gem, pa, now, client, api_key, storage, enqueued, ulid, ncreate, ndispatch, call >>

\* The except clause without its inner try: the exception leaves the job.
HandlerRaises_propagates(w) ==
    /\ job[w].pc = "handler"
    /\ Returned(w, "propagated")
    /\ UNCHANGED << gem, pa, now, client, api_key, storage, tables, enqueued, ulid, ncreate,
                    ndispatch, call >>

\* except Exception: pass
HandlerRaises(w) ==
    /\ job[w].pc = "handler"
    /\ Returned(w, "swallowed")
    /\ UNCHANGED << gem, pa, now, client, api_key, storage, tables, enqueued, ulid, ncreate,
                    ndispatch, call >>

\* The row of the job's request is in the table.
RowPresent(w) == job[w].id # None /\ job[w].id[1] \in Ids

\* A flush that inserts the pending child rows although the UPDATE of the
\* request matched no row.
RowGone_inserts_children(w) ==
    /\ job[w].pc \in {"guard", "fetch", "rows", "fail"}
    /\ ~RowPresent(w)
    /\ IF job[w].pc = "rows"
       THEN /\ generation_output' = generation_output \o InsertRows(job[w]).pending_outputs
            /\ usage_cost' = usage_cost \o InsertRows(job[w]).pending_usage
            /\ UNCHANGED generation_request
       ELSE UNCHANGED tables
    /\ job' = [job EXCEPT ![w] = [Rollback(job[w]) EXCEPT !.pc = "handler"]]
    /\ UNCHANGED << gem, pa, now, client, api_key, storage, enqueued, ulid, ncreate,
                    ndispatch, call, last >>

\* The request was deleted under the job.  db.commit() at steps 1 and 10 and
\* in _fail_generation flushes an UPDATE of generation_request that matches
\* no row (StaleDataError), and the read of the expired gen at step 3 finds
\* no row (ObjectDeletedError): the transaction is rolled back with its
\* pending rows, and the exception goes to the except clause of the job.
RowGone(w) ==
    /\ job[w].pc \in {"guard", "fetch", "rows", "fail"}
    /\ ~RowPresent(w)
    /\ job' = [job EXCEPT ![w] = [Rollback(job[w]) EXCEPT !.pc = "handler"]]
    /\ UNCHANGED << gem, pa, now, client, api_key, storage, tables, enqueued, ulid, ncreate,
                    ndispatch, call, last >>

\* The worker process dies inside the job: nothing more is written.
WorkerCrash(w) ==
    /\ job[w].pc \notin {"idle"}
    /\ Returned(w, "crashed")
    /\ UNCHANGED << gem, pa, now, client, api_key, storage, tables, enqueued, ulid, ncreate,
                    ndispatch, call >>

\* ---------------------------------------------------------- services/gemini
\* What the upstream can answer to one POST: an HTTP status with a body, or
\* no answer at all (httpx raises).
Responses ==
    { [status |-> 200, body |-> "image"],
      [status |-> 200, body |-> "image_no_usage"],
      [status |-> 200, body |-> "image_null_counts"],
      [status |-> 200, body |-> "image_null_usage"],
      [status |-> 200, body |-> "no_images"],
      [status |-> 200, body |-> "api_error"],
      [status |-> 200, body |-> "not_json"],
      [status |-> 200, body |-> "bad_data_url"],
      [status |-> 400, body |-> ""],
      [status |-> 401, body |-> ""],
      [status |-> 429, body |-> ""],
      [status |-> 500, body |-> ""],
      [status |-> 501, body |-> ""],
      [status |-> 503, body |-> ""],
      [status |-> 0, body |-> "timeout"] }

\* retryable = resp.status_code in (429, 500, 502, 503, 504)
RetryableStatus(status) == status \in {429, 500, 502, 503, 504}

\* _call_openrouter: how one call ends.
\*   "image"      returns (image_bytes, usage)
\*   "retryable"  raises GeminiError(retryable=True)
\*   "fatal"      raises GeminiError(retryable=False)
\*   "other"      raises another exception (httpx error, resp.json() failure)
\* Bodies of a 200: "image" and the three "image_..." bodies carry an image
\* and differ in their "usage" member (see usage); "no_images" is well formed
\* with an empty images list; "api_error" has an "error" member; "not_json"
\* does not parse; "bad_data_url" carries an image url that is no data URL.
call_openrouter(resp) ==
    IF resp.body = "timeout" THEN "other"
    ELSE IF resp.status # 200
         THEN (IF RetryableStatus(resp.status) THEN "retryable" ELSE "fatal")
    ELSE IF resp.body = "not_json" THEN "other"
    ELSE IF resp.body = "api_error" THEN "fatal"
    ELSE IF resp.body = "no_images" THEN "fatal"
    ELSE IF resp.body = "bad_data_url" THEN "fatal"
    ELSE "image"

\* The camera angles of VARIATION_VIEWS, in list order.
VARIATION_VIEWS == << "front_view", "three_quarter_side_view", "back_view" >>

\* view_instruction = VARIATION_VIEWS[variation_index % len(VARIATION_VIEWS)]
\* (the list is indexed from 0 in the code and from 1 here)
view_instruction(variation_index) ==
    VARIATION_VIEWS[(variation_index % Len(VARIATION_VIEWS)) + 1]

\* Token counts of a response that reports them.
PromptTokens == 2
CompletionTokens == 1

\* usage = data.get("usage", {}): the "usage" member of the response, or an
\* empty object when the response has none.  A member, and a count inside it,
\* is an integer, JSON null, or missing.
\*   "image"              "usage": {"prompt_tokens": 2, "completion_tokens": 1}
\*   "image_no_usage"     no "usage" member
\*   "image_null_counts"  "usage": {"prompt_tokens": null}
\*   "image_null_usage"   "usage": null
usage(resp) ==
    IF resp.body = "image"
    THEN [ kind |-> "object",
           prompt_tokens |-> [kind |-> "int", n |-> PromptTokens],
           completion_tokens |-> [kind |-> "int", n |-> CompletionTokens] ]
    ELSE IF resp.body = "image_null_counts"
    THEN [ kind |-> "object",
           prompt_tokens |-> [kind |-> "null", n |-> 0],
           completion_tokens |-> [kind |-> "missing", n |-> 0] ]
    ELSE IF resp.body = "image_null_usage"
    THEN [ kind |-> "null",
           prompt_tokens |-> [kind |-> "missing", n |-> 0],
           completion_tokens |-> [kind |-> "missing", n |-> 0] ]
    ELSE [ kind |-> "object",
           prompt_tokens |-> [kind |-> "missing", n |-> 0],
           completion_tokens |-> [kind |-> "missing", n |-> 0] ]

\* usage.get(key, 0) or 0, for a usage that is an object
TokensOf(count) == IF count.kind = "int" THEN count.n ELSE 0

NoBatch ==
    [ pc |-> "idle", max_retries |-> 0, variation_idx |-> 0, attempt |-> 0,
      all_images |-> << >>, calls |-> [v \in 0..(NumVariations - 1) |-> 0],
      nsleeps |-> 0, wait_time |-> 0, resp |-> None, error |-> None,
      view |-> None, total_input_tokens |-> 0, total_output_tokens |-> 0,
      result |-> None ]

pipeline == << now, client, api_key, storage, generation_request, generation_output,
               usage_cost, enqueued, ulid, ncreate, ndispatch, call, job, last,
               pa >>

\* generate_garment_images(garment_image_bytes, prompt_text, max_retries=...)
\* if not settings.OPENROUTER_API_KEY: raise GeminiError(...)
GenerateStart(max_retries) ==
    /\ gem.pc = "idle"
    /\ gem' = IF api_key = ""
              THEN [NoBatch EXCEPT !.pc = "raised", !.max_retries = max_retries,
                                   !.error = Some("not_configured")]
              ELSE [NoBatch EXCEPT !.pc = "call", !.max_retries = max_retries]
    /\ UNCHANGED pipeline

\* The call of _call_openrouter for the current variation and attempt.
Called(resp) ==
    [gem EXCEPT !.calls[gem.variation_idx] = @ + 1, !.resp = Some(resp),
                !.view = Some(view_instruction(gem.variation_idx))]

\* GeminiResult(images=all_images,
\*   input_tokens=total_input_tokens if total_input_tokens else None, ...)
GeminiResult(g) ==
    [ images |-> g.all_images,
      input_tokens |-> IF g.total_input_tokens # 0
                       THEN Some(g.total_input_tokens) ELSE None,
      output_tokens |-> IF g.total_output_tokens # 0
                        THEN Some(g.total_output_tokens) ELSE None ]

\* break, and after the last variation the return of the result
NextVariation(g) ==
    IF g.variation_idx + 1 < NumVariations
    THEN [g EXCEPT !.variation_idx = @ + 1, !.attempt = 0]
    ELSE [g EXCEPT !.attempt = 0, !.pc = "returned",
                   !.result = Some(GeminiResult(g))]

\* all_images.append(image_bytes); the token counts are added to the
\* totals; break.
CallReturnsImage(resp) ==
    /\ gem.pc = "call"
    /\ call_openrouter(resp) = "image"
    /\ usage(resp).kind = "object"
    /\ gem' = NextVariation(
                 [Called(resp) EXCEPT
                    !.all_images = Append(@, gem.variation_idx),
                    !.total_input_tokens = @ + TokensOf(usage(resp).prompt_tokens),
                    !.total_output_tokens = @ + TokensOf(usage(resp).completion_tokens)])
    /\ UNCHANGED pipeline

\* Retry with one attempt too many.
Retry_one_more(g, wait_time) ==
    IF g.attempt <= g.max_retries
    THEN [g EXCEPT !.attempt = @ + 1, !.nsleeps = @ + 1, !.wait_time = wait_time]
    ELSE [g EXCEPT !.pc = "raised", !.error = Some("exhausted")]

\* After a failed attempt that may be retried: sleep and try again, or
\* (for ... else) raise when this was attempt max_retries.
Retry(g, wait_time) ==
    IF g.attempt < g.max_retries
    THEN [g EXCEPT !.attempt = @ + 1, !.nsleeps = @ + 1, !.wait_time = wait_time]
    ELSE [g EXCEPT !.pc = "raised", !.error = Some("exhausted")]

\* except GeminiError as e: if not e.retryable: raise
CallFailsFatal(resp) ==
    /\ gem.pc = "call"
    /\ call_openrouter(resp) = "fatal"
    /\ gem' = [Called(resp) EXCEPT !.pc = "raised", !.error = Some("fatal")]
    /\ UNCHANGED pipeline

\* The sleep before the next attempt:
\*   except GeminiError (retryable):  wait_time = 15 * (2 ** attempt)
\*   except Exception:                wait_time = 2 ** (attempt + 1)
backoff(retryable_gemini_error, attempt) ==
    IF retryable_gemini_error THEN 15 * (2 ^ attempt) ELSE 2 ^ (attempt + 1)

\* except GeminiError as e (retryable): wait_time = 15 * (2 ** attempt)
CallFailsRetryable(resp) ==
    /\ gem.pc = "call"
    /\ call_openrouter(resp) = "retryable"
    /\ gem' = Retry(Called(resp), backoff(TRUE, gem.attempt))
    /\ UNCHANGED pipeline

\* except Exception as e: wait_time = 2 ** (attempt + 1)
CallFailsOther(resp) ==
    /\ gem.pc = "call"
    /\ call_openrouter(resp) = "other"
    /\ gem' = Retry(Called(resp), backoff(FALSE, gem.attempt))
    /\ UNCHANGED pipeline

\* _call_openrouter returned an image and "usage": null.  The image is
\* appended, then usage.get raises AttributeError inside the try block, which
\* except Exception handles like any failed attempt.
UsageRaises(resp) ==
    /\ gem.pc = "call"
    /\ call_openrouter(resp) = "image"
    /\ usage(resp).kind = "null"
    /\ gem' = Retry([Called(resp) EXCEPT
                       !.all_images = Append(@, gem.variation_idx)],
                    backoff(FALSE, gem.attempt))
    /\ UNCHANGED pipeline

\* -------------------------------------------------------------------- spec
Init ==
    /\ now = 0
    /\ client \in {"gemini_py", "test_double"}
    /\ api_key \in {"", "sk-or-1"}
    /\ storage = {GarmentA.path, PhotoA.path}
    /\ generation_request = << >>
    /\ generation_output = << >>
    /\ usage_cost = << >>
    /\ enqueued = << >>
    /\ ulid = 0
    /\ ncreate = 0
    /\ ndispatch = 0
    /\ call = [c \in Callers |-> NoCall]
    /\ job = [w \in Workers |-> NoJob]
    /\ last = [how |-> "none", ran |-> FALSE]
    /\ gem = NoBatch
    /\ pa = InitialAssembler

\* The pipeline: one submitted request (requests share no state, and the
\* claims checked here are per request), any dispatches of its job to two
\* workers, every failure the job handles, worker crashes, and the clock.
Next ==
    \/ Tick
    \/ \E body \in JobBodies :
          generation_request = << >> /\ CreateProceed("c1", body)
    \/ CreateInsert("c1")
    \/ CreateEnqueue("c1")
    \/ CreateEnqueueFails("c1")
    \/ \E w \in Workers, id \in Ids :
          \/ SkipRunning(w, id)
          \/ PassGuard(w, id)
          \/ LoadRaises(w, id)
    \/ \E w \in Workers :
          \/ CommitRunning(w)
          \/ CommitRunningRaises(w)
          \/ FetchGarments(w)
          \/ GarmentMissing(w)
          \/ AssemblePrompt(w)
          \/ PromptFails(w)
          \/ ClientRejectsCall(w)
          \/ ClientReturns(w)
          \/ ClientRaises(w)
          \/ SaveOutputs(w)
          \/ \E n \in 0..(NumVariations - 1) : SaveRaises(w, n)
          \/ CommitSucceeded(w)
          \/ FinalCommitRaises(w)
          \/ fail_generation(w)
          \/ FailCommitRaises(w)
          \/ HandleUnhandled(w)
          \/ HandlerRaises(w)
          \/ WorkerCrash(w)

Spec == Init /\ [][Next]_vars

\* Submissions: repeated create_generation calls of one caller over every
\* submission of Bodies, interleaved with one worker that runs the job
\* without faults.
NextSubmit ==
    \/ \E body \in Bodies :
          \/ CreateRejected("c1", body)
          \/ CreateExisting("c1", body)
          \/ CreateConflict("c1", body)
          \/ CreateProceed("c1", body)
    \/ CreateInsert("c1")
    \/ CreateEnqueue("c1")
    \/ CreateEnqueueFails("c1")
    \/ \E id \in Ids : PassGuard("w1", id)
    \/ CommitRunning("w1")
    \/ FetchGarments("w1")
    \/ GarmentMissing("w1")
    \/ AssemblePrompt("w1")
    \/ ClientRejectsCall("w1")
    \/ ClientReturns("w1")
    \/ SaveOutputs("w1")
    \/ CommitSucceeded("w1")
    \/ fail_generation("w1")

SpecSubmit == Init /\ [][NextSubmit]_vars

\* Concurrent submissions: the create_generation calls of two callers,
\* interleaved at every commit, over every submission of Bodies.
NextRace ==
    \/ \E c \in Callers, body \in Bodies :
          \/ CreateRejected(c, body)
          \/ CreateExisting(c, body)
          \/ CreateConflict(c, body)
          \/ CreateProceed(c, body)
    \/ \E c \in Callers :
          \/ CreateInsert(c)
          \/ CreateEnqueue(c)
          \/ CreateEnqueueFails(c)

SpecRace == Init /\ [][NextRace]_vars

\* The client: one batch of generate_garment_images, called with a retry
\* budget of 0..MaxRetries and with or without a configured key, against
\* every sequence of upstream responses.
NextClient ==
    \/ \E max_retries \in 0..MaxRetries : GenerateStart(max_retries)
    \/ \E resp \in Responses :
          \/ CallReturnsImage(resp)
          \/ CallFailsFatal(resp)
          \/ CallFailsRetryable(resp)
          \/ CallFailsOther(resp)
          \/ UsageRaises(resp)

SpecClient == Init /\ [][NextClient]_vars

\* History: one caller submits, one worker runs the jobs without faults, and
\* a second caller deletes history items, as the owning session, as another
\* session and as an admin, while no job is at work on the item.
NextHistory ==
    \/ \E body \in JobBodies : CreateProceed("c1", body)
    \/ CreateInsert("c1")
    \/ CreateEnqueue("c1")
    \/ \E id \in Ids : PassGuard("w1", id)
    \/ CommitRunning("w1")
    \/ FetchGarments("w1")
    \/ GarmentMissing("w1")
    \/ AssemblePrompt("w1")
    \/ ClientRejectsCall("w1")
    \/ ClientReturns("w1")
    \/ SaveOutputs("w1")
    \/ CommitSucceeded("w1")
    \/ fail_generation("w1")
    \/ \E cookies \in DeleteCookies,
          gen_id \in {generate_gen_id(n) : n \in 1..MaxCreate} :
          /\ \A w \in Workers : job[w].id # Some(gen_id)
          /\ \/ DeleteNotFound("c2", cookies, gen_id)
             \/ delete_history_item("c2", cookies, gen_id)

SpecHistory == Init /\ [][NextHistory]_vars

\* Reads: one caller submits and re-submits, one worker runs the jobs without
\* faults, and a second caller polls the status, outputs, status-partial and
\* history endpoints at every point of the job.
NextRead ==
    \/ \E body \in JobBodies :
          \/ CreateExisting("c1", body)
          \/ CreateConflict("c1", body)
          \/ CreateProceed("c1", body)
    \/ CreateInsert("c1")
    \/ CreateEnqueue("c1")
    \/ \E id \in Ids : PassGuard("w1", id)
    \/ CommitRunning("w1")
    \/ FetchGarments("w1")
    \/ GarmentMissing("w1")
    \/ AssemblePrompt("w1")
    \/ ClientRejectsCall("w1")
    \/ ClientReturns("w1")
    \/ SaveOutputs("w1")
    \/ CommitSucceeded("w1")
    \/ fail_generation("w1")
    \/ \E gen_id \in {generate_gen_id(n) : n \in 1..MaxCreate} :
          \/ GetStatus("c2", gen_id)
          \/ GetOutputs("c2", gen_id)
          \/ GetStatusPartial("c2", gen_id)
    \/ \E cookies \in DeleteCookies : GetHistory("c2", cookies)

SpecRead == Init /\ [][NextRead]_vars

\* Uploads: a caller builds sign requests of 0 to MAX_FILES + 1 files out of
\* FileChoices and sends them under either session.
NextUpload ==
    \/ \E f \in FileChoices : SignRequestGrows("c1", f)
    \/ \E session_id \in {Session1, Session2} : SignUploadUrls("c1", session_id)

SpecUpload == Init /\ [][NextUpload]_vars

\* Delete under a job: one caller submits, one worker runs the jobs, and a
\* second caller deletes history items at any point of a job.  The steps of
\* the job that write or load the row find it or find it gone.
NextDeleteRace ==
    \/ \E body \in JobBodies : CreateProceed("c1", body)
    \/ CreateInsert("c1")
    \/ CreateEnqueue("c1")
    \/ \E id \in Ids : PassGuard("w1", id)
    \/ /\ RowPresent("w1")
       /\ \/ CommitRunning("w1")
          \/ FetchGarments("w1")
          \/ GarmentMissing("w1")
          \/ CommitSucceeded("w1")
          \/ fail_generation("w1")
    \/ RowGone("w1")
    \/ AssemblePrompt("w1")
    \/ ClientRejectsCall("w1")
    \/ ClientReturns("w1")
    \/ ClientRaises("w1")
    \/ SaveOutputs("w1")
    \/ HandleUnhandled("w1")
    \/ \E cookies \in DeleteCookies, gen_id \in {generate_gen_id(n) : n \in 1..MaxCreate} :
          \/ DeleteNotFound("c2", cookies, gen_id)
          \/ delete_history_item("c2", cookies, gen_id)

SpecDeleteRace == Init /\ [][NextDeleteRace]_vars

\* The handler of create_generation goes on to its end.
CreateSteps ==
    \/ CreateInsert("c1")
    \/ CreateEnqueue("c1")
    \/ CreateEnqueueFails("c1")

\* The worker takes a job of the queue whose request is still queued, and
\* runs it to its end without faults.
WorkerSteps ==
    \/ \E id \in Ids : generation_request[id].status = "queued" /\ PassGuard("w1", id)
    \/ CommitRunning("w1")
    \/ FetchGarments("w1")
    \/ GarmentMissing("w1")
    \/ AssemblePrompt("w1")
    \/ ClientRejectsCall("w1")
    \/ ClientReturns("w1")
    \/ ClientRaises("w1")
    \/ SaveOutputs("w1")
    \/ CommitSucceeded("w1")
    \/ fail_generation("w1")

\* Jobs: one caller submits, with an idempotency key or without, the queue
\* takes the job or is unreachable, and one worker runs every job of the
\* queue once.
NextJobs ==
    \/ \E body \in JobBodies \cup {[BaseBody EXCEPT !.idempotency_key = None]} :
          CreateProceed("c1", body)
    \/ CreateSteps
    \/ WorkerSteps

\* The worker eventually runs every enqueued job, and every handler returns.
FairJobs == Init /\ [][NextJobs]_vars /\ WF_vars(CreateSteps) /\ WF_vars(WorkerSteps)

\* The prompt assembler: calls of assemble_prompt over PromptModelParams,
\* PromptCalls and Versions, and changes of the template files.
NextPrompt ==
    \/ \E params \in PromptCalls, template_version \in Versions :
          \/ AssembleReturns(params[1], params[2], template_version)
          \/ AssembleRaises(params[1], params[2], template_version)
    \/ TemplateFileWritten("v0_3.yaml", TemplateBare)
    \/ TemplateFileWritten("v0_1.yaml", TemplateBare)
    \/ TemplateFileRemoved("v0_3.yaml")

SpecPrompt == Init /\ [][NextPrompt]_vars

\* Every call to the upstream ends: httpx.Client(timeout=120.0).
FairClient == SpecClient /\ WF_vars(NextClient)

TypeOK ==
    /\ now \in 0..MaxTime
    /\ \A i \in Ids : generation_request[i].status \in
          {"queued", "running", "succeeded", "failed"}

\* ================================================================== claims
Terminal == {"succeeded", "failed"}

StatusOf(i) == generation_request[i].status

VariationIndices(rows) == [k \in 1..Len(rows) |-> rows[k].variation_index]

\* A worker that is inside generate_images after its running-commit.
Running(w) == job[w].pc # "idle" /\ job[w].ran

\* C1, its closing clause (the status only moves forward, so): under any
\* sequence of dispatches, redelivery after the request has finished
\* included, a request whose status is succeeded or failed never changes
\* status again.
C1_TerminalStatusNeverChanges ==
    [][ \A i \in Ids :
          StatusOf(i) \in Terminal =>
              generation_request'[i].status = StatusOf(i) ]_vars

C5_ReturnsWithTerminalStatus ==
    [][ \A w \in Workers :
          (Running(w) /\ job'[w].pc = "idle" /\ last'.how # "crashed") =>
              generation_request'[job[w].id[1]].status \in Terminal ]_vars

C8_SecondDispatchNeverProceeds ==
    [][ \A w \in Workers :
          ( /\ job[w].pc = "idle"
            /\ job'[w].pc = "guard"
            /\ now < STALE_THRESHOLD )
          => ~(last.ran \/ \E w2 \in Workers \ {w} : job[w2].ran) ]_vars

\* C8 witness (the race of its first half): both dispatches read queued
\* before either committed running, and both went on to invoke the client.
C8_RaceWitness ==
    \A w \in Workers :
        /\ job[w].seen_status = "queued"
        /\ job[w].ran
        /\ job[w].ncalls = 1

\* The submitted parameters of body b equal those stored for the row
\* (output.resolution is not stored in any column).
SameSubmission(row, b) ==
    /\ row.garment_image_urls = b.garment_images
    /\ \A k \in DOMAIN b.model_params : row.model_params[k] = b.model_params[k]
    /\ row.model_params.product_type = b.product_type
    /\ row.scene_params = b.scene
    /\ row.output_count = b.output.count

\* In this step c's call runs the checks of create_generation on a body
\* that presents the key of the existing row i.
Resubmits(c, i) ==
    /\ call[c].pc = "idle"
    /\ call'[c] # call[c]
    /\ call'[c].body.idempotency_key # None
    /\ generation_request[i].idempotency_key = call'[c].body.idempotency_key

\* C9: a call whose key matches an existing request and whose parameters are
\* the same returns that request's id (and current status), inserts no row,
\* changes no field of any row and enqueues no job, whatever the status.
C9_IdenticalResubmissionReturnsExisting ==
    [][ \A c \in Callers, i \in Ids :
          ( /\ Resubmits(c, i)
            /\ SameSubmission(generation_request[i], call'[c].body) )
          => ( /\ call'[c].pc = "idle"
               /\ call'[c].resp = Some([ code |-> HTTP_CREATED, id |-> Some(i),
                                         status |-> StatusOf(i) ])
               /\ UNCHANGED << generation_request, generation_output,
                               usage_cost, enqueued >> ) ]_vars

\* C10: a well-formed call whose key matches an existing request and which
\* differs from it in a submitted parameter (garment images, a model
\* parameter, product type, a scene parameter, output count) is answered 409,
\* inserts no row and enqueues no job.
C10_DifferentResubmissionConflicts ==
    [][ \A c \in Callers, i \in Ids :
          ( /\ Resubmits(c, i)
            /\ ValidBody(call'[c].body)
            /\ ~SameSubmission(generation_request[i], call'[c].body) )
          => ( /\ call'[c].pc = "idle"
               /\ call'[c].resp[1].code = HTTP_CONFLICT
               /\ UNCHANGED << generation_request, generation_output,
                               usage_cost, enqueued >> ) ]_vars

\* C11: in every state, also when two calls with the same key both ran the
\* existence check before either committed, at most one row holds a given
\* non-null idempotency key and at most one job is enqueued for that key.
C11_OneRowAndOneJobPerKey ==
    \A i \in Ids :
        generation_request[i].idempotency_key # None =>
            /\ \A j \in Ids :
                  generation_request[j].idempotency_key =
                      generation_request[i].idempotency_key => j = i
            /\ enqueued[i] <= 1

\* C11 witness: two calls presented the same key, both passed the existence
\* check, one inserted the row and enqueued its job, and the commit of the
\* other was refused.
C11_Witness ==
    \E c \in Callers, d \in Callers, i \in Ids :
        /\ c # d
        /\ call[c].pc = "idle" /\ call[d].pc = "idle"
        /\ call[c].body.idempotency_key = Some("k1")
        /\ call[d].body.idempotency_key = Some("k1")
        /\ call[c].resp = Some([code |-> HTTP_CREATED, id |-> Some(i), status |-> "queued"])
        /\ call[d].resp = Some([code |-> 500, id |-> None, status |-> ""])
        /\ Ids = {i}
        /\ enqueued[i] = 1

\* In this step c's call runs the validation and the checks of
\* create_generation.
Submits(c) == call[c].pc = "idle" /\ call'[c] # call[c]

\* C12: a call with no garment image or with more than 5 is rejected (400 or
\* 422) with no row written and no job enqueued; a call with 1 to 5 images
\* is not rejected on this ground.
C12_ImageCountValidated ==
    [][ \A c \in Callers :
          Submits(c) =>
            LET n == Len(call'[c].body.garment_images)
                rejected == /\ call'[c].pc = "idle"
                            /\ call'[c].resp[1].code \in {400, 422}
            IN  /\ (n = 0 \/ n > 5) =>
                      /\ rejected
                      /\ UNCHANGED << generation_request, generation_output,
                                      usage_cost, enqueued >>
                /\ (n >= 1 /\ n <= 5) => ~rejected ]_vars

\* C12 witness: a call with 6 images was rejected after a call with 5 images
\* had its row written.
C12_Witness ==
    \E c \in Callers, i \in Ids :
        /\ call[c].pc = "idle"
        /\ Len(call[c].body.garment_images) = 6
        /\ call[c].resp = Some([code |-> 422, id |-> None, status |-> ""])
        /\ Len(generation_request[i].garment_image_urls) = 5
        /\ Ids = {i}

\* C13: a call that finds no request with its key and is accepted creates
\* exactly one row, with status queued, no error message and an id prefixed
\* "gen_"; it answers 201 with that id and status queued; and every later
\* status read of an id so answered returns that same id.
C13_NewSubmissionCreatesQueuedRow ==
    [][ \A c \in Callers :
          /\ (call[c].pc = "insert" /\ call'[c].pc = "enqueue") =>
                \E i \in Ids' \ Ids :
                    /\ Ids' = Ids \cup {i}
                    /\ \A j \in Ids : generation_request'[j] = generation_request[j]
                    /\ call'[c].gen_id = Some(i)
                    /\ i[1] = "gen_"
                    /\ generation_request'[i].id = i
                    /\ generation_request'[i].status = "queued"
                    /\ generation_request'[i].error_message = None
          /\ (call[c].pc = "enqueue" /\ call'[c].pc = "idle") =>
                /\ call'[c].resp = Some([code |-> 201, id |-> call[c].gen_id,
                                         status |-> "queued"])
                /\ UNCHANGED generation_request
          /\ (call'[c].resp # None /\ call'[c].resp[1].code = 201) =>
                \E i \in Ids' :
                    /\ call'[c].resp[1].id = Some(i)
                    /\ get_generation_status(i)'.code = 200
                    /\ get_generation_status(i)'.id = Some(i) ]_vars

\* C13 witness: a new submission was answered with an id, the job has since
\* failed, and a status read of that id returns the id with status failed.
C13_Witness ==
    \E c \in Callers, i \in Ids :
        /\ call[c].pc = "idle"
        /\ call[c].resp = Some([code |-> 201, id |-> Some(i), status |-> "queued"])
        /\ get_generation_status(i).id = Some(i)
        /\ get_generation_status(i).status = "failed"

\* C14: when the garment images of a queued request all load, its prompt
\* assembles and the upstream returns an image for every call, one run of
\* generate_images, calling the client with the keywords of jobs.py:133,
\* leaves the request succeeded with output rows 0, 1, 2 and one usage row.
\* (The worker of SpecSubmit meets no fault of storage, prompt, upstream or
\* database.)
C14_HappyPathSucceeds ==
    [][ \A w \in Workers, i \in Ids :
          ( /\ job[w].id = Some(i)
            /\ job[w].seen_status = "queued"
            /\ \A k \in 1..Len(generation_request[i].garment_image_urls) :
                  Loadable(generation_request[i].garment_image_urls[k])
            /\ job[w].pc # "idle"
            /\ job'[w].pc = "idle" )
          => ( /\ generation_request'[i].status = "succeeded"
               /\ VariationIndices(OutputsOf(i)') = <<0, 1, 2>>
               /\ Len(UsageOf(i)') = 1 ) ]_vars

\* The garment references of request i that storage cannot load.
Unloadable(i) ==
    { generation_request[i].garment_image_urls[k] :
        k \in { n \in 1..Len(generation_request[i].garment_image_urls) :
                  generation_request[i].garment_image_urls[n].path \notin storage } }

C17_ThreeImagesOrRaise ==
    /\ gem.pc = "returned" => (Len(gem.all_images) = 3 /\ gem.all_images = <<0, 1, 2>>)
    /\ gem.pc = "raised" => gem.error # None

\* C18: no variation gets more than max_retries + 1 network calls, hence the
\* batch at most 3 * (max_retries + 1), and a started batch always ends: it
\* returns or it raises.
C18_BoundedCallsAndTermination ==
    /\ [](\A v \in 0..2 : gem.calls[v] <= gem.max_retries + 1)
    /\ [](gem.calls[0] + gem.calls[1] + gem.calls[2] <= 3 * (gem.max_retries + 1))
    /\ (gem.pc = "call") ~> (gem.pc \in {"returned", "raised"})

\* C18 witness: a batch with max_retries = 2 returned after every variation
\* had used its three calls.
C18_Witness ==
    /\ gem.pc = "returned"
    /\ gem.max_retries = 2
    /\ \A v \in 0..2 : gem.calls[v] = 3

\* The batch makes a network call in this step and gets resp.
Gets(resp) == gem.pc = "call" /\ gem' # gem /\ gem'.resp = Some(resp)

\* C19: a call that fails with HTTP 429, with any 5xx status, or with a
\* well-formed 200 response without image data is retried: when attempts
\* remain, the next call is another attempt for the same variation.
C19_TransientFailuresRetried ==
    [][ \A resp \in Responses :
          ( /\ Gets(resp)
            /\ gem.attempt < gem.max_retries
            /\ \/ resp.status = 429
               \/ resp.status \in 500..599
               \/ (resp.status = 200 /\ resp.body = "no_images") )
          => ( /\ gem'.pc = "call"
               /\ gem'.variation_idx = gem.variation_idx
               /\ gem'.attempt = gem.attempt + 1
               /\ gem'.all_images = gem.all_images ) ]_vars

\* C20: a call that fails with a malformed payload or with a 4xx status
\* other than 429 aborts the batch at once, and so does a missing
\* credential before any call: no backoff sleep, and after the batch has
\* raised no further network call.
C20_PermanentFailuresAbort ==
    [][ /\ \A resp \in Responses :
              ( /\ Gets(resp)
                /\ \/ (resp.status = 200 /\ resp.body \in {"not_json", "bad_data_url"})
                   \/ (resp.status \in 400..499 /\ resp.status # 429) )
              => (gem'.pc = "raised" /\ gem'.nsleeps = gem.nsleeps)
        /\ \A n \in 0..MaxRetries :
              (api_key = "" /\ GenerateStart(n)) =>
                  (gem'.pc = "raised" /\ \A v \in 0..2 : gem'.calls[v] = 0)
        /\ gem.pc = "raised" => gem' = gem ]_vars

\* C21: when every variation gets its image within its first
\* max_retries + 1 attempts and every failure before it is retryable, the
\* batch returns exactly 3 images.  Step by step: an attempt that fails and
\* is retried (the batch stays on the variation) adds no image; an attempt that
\* succeeds (the batch moves to the next variation or returns) adds exactly
\* one; a retryable failure with attempts left is followed by another attempt
\* for the same variation; a variation that has its image is never called
\* again; the batch raises only on a failure that is not retryable or on the
\* failure of attempt max_retries + 1; and what it returns is one image per
\* variation.
C21_RetriedBatchSucceeds ==
    [][ \A resp \in Responses :
          Gets(resp) =>
            LET v == gem.variation_idx
                succeeds == gem'.pc = "returned" \/ gem'.variation_idx = v + 1
            IN  /\ \A u \in 0..2 : u # v => gem'.calls[u] = gem.calls[u]
                /\ gem'.calls[v] = gem.calls[v] + 1
                /\ succeeds => gem'.all_images = Append(gem.all_images, v)
                /\ (~succeeds /\ gem'.pc = "call") =>
                      gem'.all_images = gem.all_images
                /\ (~succeeds /\ gem.calls[v] < gem.max_retries
                    /\ call_openrouter(resp) # "fatal") =>
                      (gem'.pc = "call" /\ gem'.variation_idx = v)
                /\ gem'.pc = "raised" =>
                      \/ call_openrouter(resp) = "fatal"
                      \/ gem.calls[v] = gem.max_retries
                /\ gem'.pc = "returned" => gem'.all_images = <<0, 1, 2>> ]_vars

\* The step sleeps before the next attempt.
Sleeps == gem'.nsleeps = gem.nsleeps + 1

\* C22: the delay before a retry doubles with each attempt (the same failure
\* twice in a row: the second sleep is twice the first), there is no sleep
\* after the last permitted attempt, and the delay after HTTP 429 is strictly
\* longer than the delay a 5xx failure gets at the same attempt (after a 5xx
\* at attempt k - 1, a 429 at attempt k sleeps more than twice as long).
C22_BackoffDoublesAndRateLimitLonger ==
    [][ \A resp \in Responses :
          Gets(resp) =>
            /\ (Sleeps /\ gem.attempt > 0 /\ gem.resp = Some(resp)) =>
                  gem'.wait_time = 2 * gem.wait_time
            /\ gem.attempt = gem.max_retries =>
                  (gem'.nsleeps = gem.nsleeps /\ gem'.wait_time = gem.wait_time)
            /\ (Sleeps /\ gem.attempt > 0 /\ resp.status = 429) =>
                  \A r5 \in Responses :
                     (r5.status \in 500..599 /\ gem.resp = Some(r5)) =>
                        gem'.wait_time > 2 * gem.wait_time ]_vars

\* C23: the calls are issued in variation order (a call is for the current
\* variation, and the variation index never goes back); every attempt for
\* variation i carries camera-angle instruction i, the three instructions
\* being front, three-quarter and back view, pairwise distinct; and the
\* returned list holds at position i the image made with instruction i.
C23_VariationOrderAndViews ==
    /\ [][ \A resp \in Responses :
             Gets(resp) =>
               /\ gem'.view = Some(VARIATION_VIEWS[gem.variation_idx + 1])
               /\ gem'.variation_idx \in {gem.variation_idx, gem.variation_idx + 1}
               /\ \A u \in 0..2 : u # gem.variation_idx => gem'.calls[u] = gem.calls[u] ]_vars
    /\ [](\A i \in 1..3, k \in 1..3 :
             i # k => VARIATION_VIEWS[i] # VARIATION_VIEWS[k])
    /\ [](gem.pc = "returned" =>
             \A i \in 0..2 :
                view_instruction(gem.result[1].images[i + 1]) = VARIATION_VIEWS[i + 1])

\* A reported token count as a number (no count reported reads as 0).
Reported(count) == IF count = None THEN 0 ELSE count[1]

\* C24: the token counts of a returned batch are the sums of the prompt and
\* completion token counts of its successful calls, and a call whose response
\* omits usage information (no usage member, a null usage member, null or
\* missing counts) adds 0 and never makes the aggregation fail: every call
\* that returns an image is a successful attempt, adds what the response
\* reports to the two sums, and the result reports the sums.
C24_TokenSumsAndMissingUsage ==
    /\ [][ \A resp \in Responses :
             (Gets(resp) /\ call_openrouter(resp) = "image") =>
               /\ gem'.total_input_tokens = gem.total_input_tokens
                     + (IF resp.body = "image" THEN PromptTokens ELSE 0)
               /\ gem'.total_output_tokens = gem.total_output_tokens
                     + (IF resp.body = "image" THEN CompletionTokens ELSE 0)
               /\ gem'.pc \in {"call", "returned"}
               /\ gem'.pc = "call" => gem'.variation_idx = gem.variation_idx + 1 ]_vars
    /\ [](gem.pc = "returned" =>
             /\ Reported(gem.result[1].input_tokens) = gem.total_input_tokens
             /\ Reported(gem.result[1].output_tokens) = gem.total_output_tokens)

Range(text) == {text[k] : k \in DOMAIN text}

\* The template the latest call of assemble_prompt used.
UsedTemplate == pa.template_cache[pa.args[1].template_version]

\* key is given and the template section has no text for it.
Unmapped(section, key) ==
    key # "" /\ key \notin DOMAIN Get(UsedTemplate, section, NoMapping)

\* C26: a model reference photo that storage cannot load does not fail the
\* job: the job goes on to the API call, and the prompt it sends describes
\* the model by the presets and not by the reference photo.
C26_MissingModelPhotoUsesPresets ==
    \A w \in Workers :
       \A i \in Ids :
          ( /\ job[w].id = Some(i)
            /\ job[w].pc = "api"
            /\ generation_request[i].model_params.model_photo_url # None
            /\ ~Loadable(generation_request[i].model_params.model_photo_url[1]) )
          => ( /\ job[w].model_photo_bytes = None
               /\ ReferencePhotoLine \notin Range(job[w].prompt_text[1])
               /\ "MODEL: " \in Range(job[w].prompt_text[1]) )

\* C29: assemble_prompt is deterministic in (model params, scene params,
\* template version), and a preset key the template has no text for
\* (environment, pose, framing, ethnicity, hair style, hair colour, product
\* type) neither makes it raise nor is dropped: the raw key is one of the
\* texts of the prompt.  (Ethnicity and hair are looked at in the
\* virtual-model mode, where the prompt describes them.)
C29_DeterministicWithRawKeyFallback ==
    /\ [][ (pa.args # None /\ pa.result.kind = "prompt" /\ pa'.args = pa.args)
              => pa'.result = pa.result ]_vars
    /\ [](\A section \in {"environments", "poses", "framing", "ethnicities",
                          "hair_styles", "hair_colors", "product_types"} :
            LET a == pa.args[1]
                key == CASE section = "environments" -> a.scene_params.environment
                         [] section = "poses" -> a.scene_params.pose_preset
                         [] section = "framing" -> a.scene_params.framing
                         [] section = "ethnicities" -> a.model_params.ethnicity
                         [] section = "hair_styles" -> a.model_params.hair_style
                         [] section = "hair_colors" -> a.model_params.hair_color
                         [] OTHER -> a.model_params.product_type
                described == \/ section \notin {"ethnicities", "hair_styles", "hair_colors"}
                             \/ a.model_params.model_photo_url = None
            IN  (pa.result.kind = "prompt" /\ described /\ Unmapped(section, key))
                   => key \in Range(pa.result.text))
    /\ [][ pa'.args # pa.args =>
              (pa'.result.kind = "FileNotFoundError" =>
                 TemplateFile(pa'.args[1].template_version) \notin DOMAIN pa.files) ]_vars

\* C27: a configuration error is fatal and not retried.  Without an API
\* credential the job's call of the client ends in the client's error about
\* the missing credential; without the template file the job fails before
\* any call of the client; in both cases the job ends failed with the message
\* that states the cause, after at most the one call of the client.
C27_ConfigurationErrorFailsJob ==
    [][ \A w \in Workers :
          /\ ( /\ job[w].pc = "api"
               /\ api_key = ""
               /\ job'[w].pc \notin {"api", "idle"} )
             => ( /\ job'[w].pc = "fail"
                  /\ job'[w].msg = Some(<<"Gemini API error: ", <<NotConfigured>> >>) )
          /\ ( job[w].pc = "prompt" /\ job'[w].pc = "fail" )
             => ( /\ job'[w].msg = Some(<<"Prompt assembly failed: ", <<"FileNotFoundError">> >>)
                  /\ job'[w].ncalls = 0 )
          /\ \A i \in Ids :
                ( /\ job[w].id = Some(i)
                  /\ job[w].pc = "fail"
                  /\ job[w].msg \in {Some(<<"Gemini API error: ", <<NotConfigured>> >>),
                                     Some(<<"Prompt assembly failed: ", <<"FileNotFoundError">> >>)}
                  /\ job'[w].pc = "idle"
                  /\ last'.how = "failed" )
                => ( /\ generation_request'[i].status = "failed"
                     /\ generation_request'[i].error_message = job[w].msg
                     /\ job[w].ncalls <= 1 ) ]_vars

\* C28: generate_images never lets an exception out to the queue worker,
\* whatever step fails, the recording of the failure included: an execution
\* ends only by returning (succeeded, failed, or with the error of the
\* failure-recording path swallowed) unless the process itself is killed, and
\* the worker then holds no job and can take the next one.
C28_NoExceptionLeavesTheJob ==
    [][ \A w \in Workers :
          (job[w].pc # "idle" /\ job'[w].pc = "idle") =>
             /\ last'.how \in {"succeeded", "failed", "swallowed", "crashed"}
             /\ job'[w] = NoJob ]_vars

\* C28 witness: the commit of _fail_generation raised, the except clause
\* raised again while recording the failure, and the execution returned.
C28_Witness ==
    /\ last.how = "swallowed"
    /\ last.ran
    /\ \A w \in Workers : job[w] = NoJob
    /\ \E i \in Ids : StatusOf(i) = "running"

\* C30: after a successful delete_history_item the request row, all its
\* output rows and its usage row are gone, and the stored bytes of its output
\* images and of its garment images can no longer be loaded.
C30_DeleteRemovesRowsAndBytes ==
    [][ \A i \in Ids :
          ( /\ call'["c2"] # call["c2"]
            /\ call'["c2"].resp = Some([code |-> 204, id |-> Some(i), status |-> ""]) )
          => ( /\ i \notin Ids'
               /\ OutputsOf(i)' = << >>
               /\ UsageOf(i)' = << >>
               /\ \A k \in DOMAIN OutputsOf(i) :
                     OutputsOf(i)[k].image_url.path \notin storage'
               /\ \A k \in DOMAIN generation_request[i].garment_image_urls :
                     generation_request[i].garment_image_urls[k].path \notin storage' ) ]_vars

\* C40: delete_history_item enforces ownership.  A deleting caller who is
\* neither an admin (a user whose role in USERS is admin) nor the session
\* that owns the request is answered 404, and a 404 deletes no request,
\* output or usage row and removes no stored object; so a row disappears
\* only at the request of its owning session or of an admin.
C40_DeleteEnforcesOwnership ==
    [][ call'["c2"] # call["c2"] =>
          LET cookies == call'["c2"].cookies
              admin == /\ cookies.username # None
                       /\ cookies.username[1] \in DOMAIN USERS
                       /\ USERS[cookies.username[1]] = "admin"
          IN  /\ call'["c2"].resp[1].code = 404 =>
                    UNCHANGED << generation_request, generation_output,
                                 usage_cost, storage >>
              /\ \A i \in Ids :
                    (~admin /\ generation_request[i].session_id # cookies.session_id[1]) =>
                       ( /\ i \in Ids'
                         /\ generation_request'[i] = generation_request[i]
                         /\ OutputsOf(i)' = OutputsOf(i)
                         /\ UsageOf(i)' = UsageOf(i)
                         /\ call'["c2"].resp[1].code # 204 ) ]_vars

\* C39: over any sequence of load_template calls of one process, the file
\* of a version is read at most once after a successful load and later calls
\* return the same template, whatever happens to the file; a load that fails
\* because the file is missing caches nothing and raises the file-not-found
\* error, and a later call reads the file when it is there.
C39_TemplateLoadedOncePerVersion ==
    /\ [](\A v \in Versions : pa.reads[v] <= 1)
    /\ [](\A v \in Versions : pa.reads[v] = 1 <=> v \in DOMAIN pa.template_cache)
    /\ [][ \A v \in Versions :
             /\ v \in DOMAIN pa.template_cache =>
                   ( /\ v \in DOMAIN pa'.template_cache
                     /\ pa'.template_cache[v] = pa.template_cache[v]
                     /\ pa'.reads[v] = pa.reads[v] )
             /\ ( /\ pa'.args # None
                  /\ (pa'.args # pa.args \/ pa'.result # pa.result \/ pa'.reads # pa.reads)
                  /\ pa'.args[1].template_version = v
                  /\ v \notin DOMAIN pa.template_cache ) =>
                   IF TemplateFile(v) \in DOMAIN pa.files
                   THEN /\ pa'.reads[v] = 1
                        /\ pa'.template_cache[v] = pa.files[TemplateFile(v)]
                        /\ pa'.result.kind = "prompt"
                   ELSE /\ pa'.result.kind = "FileNotFoundError"
                        /\ pa'.template_cache = pa.template_cache
                        /\ pa'.reads = pa.reads ]_vars

\* C39 witness: the file of version v0.3 was written and read once, and
\* version v0.1 is cached with the template read before its file was
\* replaced.
C39_Witness ==
    /\ pa.reads["v0.3"] = 1
    /\ "v0.3" \in DOMAIN pa.template_cache
    /\ "v0.1" \in DOMAIN pa.template_cache
    /\ pa.template_cache["v0.1"] = TemplateV01
    /\ pa.files["v0_1.yaml"] = TemplateBare
    /\ pa.args # None
    /\ pa.args[1].template_version = "v0.1"
    /\ pa.result.kind = "prompt"
    /\ "a clean white studio backdrop" \in Range(pa.result.text)

\* C36: in every reachable state, after any sequence of dispatches, a
\* request has an error message if and only if its status is failed; a
\* request that failed, was dispatched again and succeeded has none.
C36_ErrorMessageIffFailed ==
    \A id \in Ids :
        generation_request[id].error_message # None
            <=> generation_request[id].status = "failed"

\* C37: every committed output row with variation index i of request r
\* references the storage path keyed by r and i, outputs/r/variation_i.jpg,
\* and the object was saved before the row was committed: every output row
\* resolves to stored bytes; an execution, first or repeated, writes to
\* those paths of its own request and to no other.
C37_OutputRowsResolveToKeyedPaths ==
    /\ [](\A k \in 1..Len(generation_output) :
            LET row == generation_output[k]
            IN  /\ row.variation_index \in 0..(NumVariations - 1)
                /\ row.image_url =
                      LocalUrl([dir |-> "outputs", owner |-> row.generation_request_id,
                                name |-> VariationFile(row.variation_index)])
                /\ Loadable(row.image_url))
    /\ [][ \A p \in storage' \ storage :
             \E w \in Workers, i \in 0..(NumVariations - 1) :
                /\ job[w].id # None
                /\ p = [dir |-> "outputs", owner |-> job[w].id[1], name |-> VariationFile(i)] ]_vars

\* C37 witness: a request executed twice has the rows of both executions,
\* and its stored outputs are the three keyed objects.
C37_Witness ==
    \E id \in Ids :
        /\ Len(SelectSeq(generation_output,
                         LAMBDA row : row.generation_request_id = id)) > NumVariations
        /\ {p \in storage : p.dir = "outputs" /\ p.owner = id}
              = {OutputPath(id, i) : i \in 0..(NumVariations - 1)}

C35_StaleRestartNeverBesideLiveExecution ==
    [][ \A w \in Workers, id \in Ids :
          ( /\ job[w].pc = "idle"
            /\ job'[w].pc = "guard"
            /\ job'[w].id = Some(id)
            /\ generation_request[id].status = "running" ) =>
               \A v \in Workers \ {w} :
                  ~ ( /\ job[v].id = Some(id)
                      /\ job[v].ran
                      /\ job[v].pc \in {"fetch", "prompt", "api", "save", "rows"}
                      /\ now - generation_request[id].updated_at <= JOB_TIMEOUT ) ]_vars

\* C32: while a request is not in a terminal state only generate_images
\* changes its status; the status, outputs, status-partial and history read
\* endpoints and an idempotent re-submission leave every field of every
\* request, output and usage row unchanged.
C32_ReadsAndResubmissionChangeNoRow ==
    /\ [][ \A c \in Callers :
             (call[c].pc = "idle" /\ call'[c].pc = "idle" /\ call'[c] # call[c]) =>
                 /\ generation_request' = generation_request
                 /\ generation_output' = generation_output
                 /\ usage_cost' = usage_cost ]_vars
    /\ [][ \A id \in Ids :
             ( /\ generation_request[id].status \notin Terminal
               /\ generation_request'[id].status # generation_request[id].status ) =>
                  \E w \in Workers : job[w].id = Some(id) /\ job'[w] # job[w] ]_vars

\* C32 witness: while the request is running, an identical re-submission
\* was answered with the running request and the outputs endpoint was read.
C32_Witness ==
    \E id \in Ids :
        /\ generation_request[id].status = "running"
        /\ call["c1"].resp # None
        /\ call["c1"].resp[1].id = Some(id)
        /\ call["c1"].resp[1].status = "running"
        /\ call["c2"].resp # None
        /\ call["c2"].resp[1].endpoint = "outputs"
        /\ call["c2"].resp[1].status = "running"

\* C34: sign_upload_urls answers 400, with no upload URL for any file, a
\* request of 0 files, of more than 5 files, or with a file whose content
\* type is not JPEG, PNG or WEBP; otherwise it returns exactly one upload
\* entry per requested file, in the order of the request.
C34_SignRejectsOrReturnsOnePerFile ==
    LET r == UploadCall("c1")
        files == r.files
        refused ==
            \/ Len(files) = 0
            \/ Len(files) > 5
            \/ \E k \in 1..Len(files) :
                  files[k].content_type \notin {"image/jpeg", "image/png", "image/webp"}
    IN  r.code # 0 =>
           IF refused
           THEN r.code = 400 /\ r.uploads = << >>
           ELSE /\ r.code = 200
                /\ Len(r.uploads) = Len(files)
                /\ \A k \in 1..Len(files) :
                      /\ r.uploads[k].filename = _sanitize_filename(files[k].filename)
                      /\ r.uploads[k].file_url.path.name = r.uploads[k].filename
                      /\ r.uploads[k].file_url.path.owner = r.session_id[1]
                      /\ r.uploads[k].file_url.path.dir =
                            (IF files[k].kind = "model_photo"
                             THEN "model-photos" ELSE "uploads")

\* C34 witness: a request of five accepted files of three different kinds
\* of name was answered with five entries, the second of them under the
\* sanitized name m_p_g.
C34_Witness ==
    LET r == UploadCall("c1")
    IN  /\ r.code = 200
        /\ Len(r.files) = 5
        /\ Len(r.uploads) = 5
        /\ r.files[1].filename = <<"f", ".", "j">>
        /\ r.files[2].kind = "model_photo"
        /\ r.uploads[2].filename = <<"m", "_", "p", "_", "g">>
        /\ r.files[3].content_type = "image/webp"

\* C38: every request accepted by create_generation eventually reaches a
\* terminal status, given that the worker eventually runs every enqueued
\* job: the row is committed before the job is enqueued, and a failure to
\* enqueue does not leave the request queued for ever with no job scheduled.
C38_AcceptedRequestEventuallyTerminal ==
    \A n \in 1..MaxCreate :
        (generate_gen_id(n) \in Ids)
            ~> ( /\ generate_gen_id(n) \in Ids
                 /\ generation_request[generate_gen_id(n)].status \in Terminal )

\* C31: in every reachable state, under any interleaving of
\* delete_history_item with a running generate_images for the same request,
\* every generation_output row and every usage_cost row references a
\* generation_request row that exists.
C31_NoOrphanedChildRows ==
    /\ \A k \in 1..Len(generation_output) :
          generation_output[k].generation_request_id \in Ids
    /\ \A k \in 1..Len(usage_cost) :
          usage_cost[k].generation_request_id \in Ids

\* C31 witness: the request was deleted while its job had the images saved;
\* the final commit of the job found no row and the job is in its except
\* clause.
C31_Witness ==
    /\ job["w1"].pc = "handler"
    /\ job["w1"].id # None
    /\ job["w1"].id[1] \notin Ids
    /\ Len(job["w1"].images) = NumVariations
    /\ OutputPath(job["w1"].id[1], 0) \in storage
    /\ call["c2"].resp # None
    /\ call["c2"].resp[1].code = 204

====
